---- MODULE Spec2Model ----
(***************************************************************************)
(* Model of src/src/parser.rs of DestyNova/zz: the builder that turns the  *)
(* grammar engine's node tree into the AST (Module, Local, Typed,          *)
(* Expression, Statement, Block).                                          *)
(*                                                                         *)
(* A grammar node is a record [rule, text, inner]: its rule tag, the text  *)
(* of its span and the sequence of its child nodes.  A Location is the     *)
(* path of child indices that leads to the node from the root handed to    *)
(* the builder function.  An Option is a sequence: <<>> is None and <<x>>  *)
(* is Some(x).  A builder function returns [st, v]: st is "ok" (v is the   *)
(* returned value), "exit9" (std::process::exit(9) after error!) or        *)
(* "panic" (panic!, unwrap on None, unreachable!).                         *)
(***************************************************************************)
EXTENDS Integers, Sequences, FiniteSets, TLC

VARIABLES
    tnode,      \* type builder: the type node handed to the builder
    tres,       \* type builder: Option of the builder's outcome
    enode,      \* expression builder: the node handed to parse_expr
    eres,       \* expression builder: Option of parse_expr's outcome
    src,        \* parse: the source file, [file, nodes]: "missing" (it cannot
                \* be opened), "rejected" (the grammar engine fails on it)
                \* or "accepted", and the children of its file node
    status,     \* parse: "start", "running", "ok" (Module returned),
                \* "exit9" (process exit with status 9), "panic" (halt)
    idx,        \* parse: position of the module-level loop in PP's output
    locals,     \* parse: Module.locals
    imports,    \* parse: Module.imports
    logged,     \* parse: number of diagnostics given to error!
    wstack,     \* call structure: the active loops, innermost last; a frame
                \* [fn, node, i] is the loop of fn over the children of
                \* node, about to take child i
    wstatus,    \* call structure: "running", "done" or "aborted"
    wmax,       \* call structure: deepest nesting of loops so far
    snode,      \* statement builder: the node handed to the builder
    sres        \* statement builder: Option of the builder's outcome

typeVars == <<tnode, tres>>

exprVars == <<enode, eres>>

modVars == <<src, status, idx, locals, imports, logged>>

walkVars == <<wstack, wstatus, wmax>>

stmtVars == <<snode, sres>>

vars ==
    <<tnode, tres, enode, eres, src, status, idx, locals, imports, logged,
      wstack, wstatus, wmax, snode, sres>>

----------------------------------------------------------------------------
(* Bounds *)

\* longest child sequence after the base name of a generated type node
MaxTypeParts == 4

\* longest child sequence of a generated expression node
MaxExprParts == 5

\* most top-level nodes in a generated source file
MaxDecls == 2

\* most top-level nodes in a source file whose call structure is walked
MaxWalkDecls == 2

\* longest child sequence of a generated block node
MaxBlockParts == 3

\* longest child sequence of a generated for statement node
MaxForParts == 6

----------------------------------------------------------------------------
(* Grammar nodes *)

N(rule, text, inner) == [rule |-> rule, text |-> text, inner |-> inner]

Leaf(rule, text) == N(rule, text, <<>>)

Ok(v) == [st |-> "ok", v |-> v]

Exit9 == [st |-> "exit9", v |-> <<>>]

Panic == [st |-> "panic", v |-> <<>>]

\* the outcome of a function that exits or halts with st
Fail(st) == [st |-> st, v |-> <<>>]

\* the rest F of a function after a call with outcome r: it runs on the
\* value returned, and an exit or halt of the callee ends the caller too
Then(r, F(_)) == IF r.st = "ok" THEN F(r.v) ELSE Fail(r.st)

\* the same inside a loop whose state is acc
AccThen(acc, r, F(_)) == IF r.st = "ok" THEN F(r.v) ELSE [acc EXCEPT !.st = r.st]

\* the greatest element of a non-empty set of numbers
LastOf(S) == CHOOSE j \in S : \A k \in S : k <= j

\* all sequences over S of length 0..n
SeqsUpTo(S, n) == UNION {[1..k -> S] : k \in 0..n}

Last(s) == s[Len(s)]

Front(s) == SubSeq(s, 1, Len(s) - 1)

----------------------------------------------------------------------------
(* Tags (ast.rs) and Name (name.rs) *)

\* Tags::new()
TagsNew == <<>>

\* Tags::insert(key, value, loc): one more entry, earlier entries kept
TagsInsert(tags, key, value, loc) ==
    Append(tags, [key |-> key, value |-> value, loc |-> loc])

\* Name::from(&str): the segments of a dotted name; tokens are atomic here
NameFrom(text) == <<text>>

----------------------------------------------------------------------------
(* Type descriptor builder: parse_named_type, parse_anon_type *)

\* TypeScanStep with the pending tag set not swapped out when a level closes
TypeScanStepKeepTags(acc, part, loc) ==
    CASE part.rule = "ptr" ->
            [st |-> "ok", tags |-> acc.tags,
             ptr |-> Append(acc.ptr, [tags |-> acc.tags, loc |-> loc])]
      [] part.rule = "key_mut" ->
            [acc EXCEPT !.tags = TagsInsert(acc.tags, "mutable", "", loc)]
      [] part.rule = "tag_name" ->
            IF Len(part.inner) = 0
            THEN [acc EXCEPT !.st = "panic"]
            ELSE [acc EXCEPT !.tags =
                    TagsInsert(acc.tags, part.inner[1].text,
                               IF Len(part.inner) >= 2 THEN part.inner[2].text ELSE "",
                               loc)]
      [] OTHER -> [acc EXCEPT !.st = "panic"]

\* one iteration of the scan over the children after the base name;
\* acc is [st, tags, ptr], part the child and loc its location
TypeScanStep(acc, part, loc) ==
    CASE part.rule = "ptr" ->
            [st |-> "ok", tags |-> TagsNew,
             ptr |-> Append(acc.ptr, [tags |-> acc.tags, loc |-> loc])]
      [] part.rule = "key_mut" ->
            [acc EXCEPT !.tags = TagsInsert(acc.tags, "mutable", "", loc)]
      [] part.rule = "tag_name" ->
            IF Len(part.inner) = 0
            THEN [acc EXCEPT !.st = "panic"]
            ELSE [acc EXCEPT !.tags =
                    TagsInsert(acc.tags, part.inner[1].text,
                               IF Len(part.inner) >= 2 THEN part.inner[2].text ELSE "",
                               loc)]
      [] OTHER -> [acc EXCEPT !.st = "panic"]

\* the scan loop: parts[i] sits at child index off + i of the type node
RECURSIVE TypeScan(_, _, _, _, _)
TypeScan(acc, parts, i, path, off) ==
    IF acc.st # "ok" \/ i > Len(parts) THEN acc
    ELSE TypeScan(TypeScanStep(acc, parts[i], Append(path, off + i)),
                  parts, i + 1, path, off)

TypeScanInit == [st |-> "ok", tags |-> TagsNew, ptr |-> <<>>]

\* NamedTypeResult that leaves the tags pending at the end behind
NamedTypeResultNoTags(r, name, typename, path) ==
    IF r.st # "ok" THEN Panic
    ELSE Ok([name  |-> name,
             typed |-> [name |-> typename, loc |-> path, ptr |-> r.ptr],
             tags  |-> TagsNew])

\* the TypedName returned after the scan r of the parts before the name
NamedTypeResult(r, name, typename, path) ==
    IF r.st # "ok" THEN Panic
    ELSE Ok([name  |-> name,
             typed |-> [name |-> typename, loc |-> path, ptr |-> r.ptr],
             tags  |-> r.tags])

parse_named_type(decl, path) ==
    IF decl.rule # "named_type" THEN Panic
    ELSE IF Len(decl.inner) = 0 THEN Panic
    ELSE IF Len(Tail(decl.inner)) = 0 THEN Panic
    ELSE IF Last(decl.inner).rule # "ident" THEN Exit9
    ELSE NamedTypeResult(
            TypeScan(TypeScanInit, Front(Tail(decl.inner)), 1, path, 1),
            Last(decl.inner).text, NameFrom(decl.inner[1].text), path)

\* AnonTypeResult without the rejection of pending tags
AnonTypeResultKeep(r, name, path) ==
    IF r.st # "ok" THEN Panic
    ELSE Ok([name |-> name, loc |-> path, ptr |-> r.ptr])

\* the end of parse_anon_type after the scan r: a pending tag is fatal
AnonTypeResult(r, name, path) ==
    IF r.st # "ok" THEN Panic
    ELSE IF Len(r.tags) > 0 THEN Exit9
    ELSE Ok([name |-> name, loc |-> path, ptr |-> r.ptr])

parse_anon_type(decl, path) ==
    IF decl.rule # "anon_type" THEN Panic
    ELSE IF Len(decl.inner) = 0 THEN Panic
    ELSE AnonTypeResult(TypeScan(TypeScanInit, Tail(decl.inner), 1, path, 1),
                        NameFrom(decl.inner[1].text), path)

----------------------------------------------------------------------------
(* Expression builder: parse_expr, parse_call *)

\* Expression::Name(Typed{ptr: Vec::new(), name, loc})
NameExpr(part, loc) ==
    [kind |-> "Name", name |-> NameFrom(part.text), ptr |-> <<>>, loc |-> loc]

\* ExprScanInit with the sentinel paired with the first child's location
ExprScanInitAtChild(path) ==
    [st |-> "ok", s_op |-> <<[text |-> "", loc |-> Append(path, 1)]>>, s_r |-> <<>>]

\* the pending operator slot at entry: Some((String::new(), node location))
ExprScanInit(path) ==
    [st |-> "ok", s_op |-> <<[text |-> "", loc |-> path]>>, s_r |-> <<>>]

\* ExprPush with the pending operator cloned instead of taken
ExprPushKeepOp(acc, r) ==
    IF r.st # "ok" THEN [acc EXCEPT !.st = r.st]
    ELSE IF acc.s_op = <<>> THEN [acc EXCEPT !.st = "panic"]
    ELSE [acc EXCEPT !.s_r = Append(acc.s_r, [op |-> acc.s_op[1], expr |-> r.v])]

\* s_r.push((s_op.take().unwrap(), Box::new(e))) where r is the outcome of
\* building the operand e, which the code evaluates before the take
ExprPush(acc, r) ==
    IF r.st # "ok" THEN [acc EXCEPT !.st = r.st]
    ELSE IF acc.s_op = <<>> THEN [acc EXCEPT !.st = "panic"]
    ELSE [acc EXCEPT !.s_op = <<>>,
                     !.s_r = Append(acc.s_r, [op |-> acc.s_op[1], expr |-> r.v])]

\* ExprFinish that reads the first pair without removing it from the chain
ExprFinishKeepFirst(s_r) ==
    IF Len(s_r) = 0 THEN Panic
    ELSE IF Len(s_r) = 1 THEN Ok(s_r[1].expr)
    ELSE Ok([kind |-> "InfixOperation", loc |-> s_r[1].op.loc,
             lhs |-> s_r[1].expr, rhs |-> s_r])

\* the end of parse_expr: s_r.remove(0), then the operand or the chain
ExprFinish(s_r) ==
    IF Len(s_r) = 0 THEN Panic
    ELSE IF Len(s_r) = 1 THEN Ok(s_r[1].expr)
    ELSE Ok([kind |-> "InfixOperation", loc |-> s_r[1].op.loc,
             lhs |-> s_r[1].expr, rhs |-> Tail(s_r)])

RECURSIVE parse_expr(_, _)
RECURSIVE ExprScan(_, _, _, _)
RECURSIVE CallArgs(_, _, _, _)
RECURSIVE CallParts(_, _, _, _)
RECURSIVE ArrayInitFields(_, _, _, _)
RECURSIVE StructInitFields(_, _, _, _)

\* the head of a unary or access production: a bare type name or a nested
\* production of one of the rules in nested
ExprHead(part, loc, nested) ==
    IF part.rule = "type_name" THEN Ok(NameExpr(part, loc))
    ELSE IF part.rule \in nested THEN parse_expr(part, loc)
    ELSE Panic

\* the arguments of one call_args node, left to right
CallArgs(args, i, path, acc) ==
    IF i > Len(args) THEN Ok(acc)
    ELSE Then(parse_expr(args[i], Append(path, i)),
              LAMBDA v : CallArgs(args, i + 1, path, Append(acc, v)))

\* the children of a call node after the callee name
CallParts(inner, i, path, args) ==
    IF i > Len(inner) THEN Ok(args)
    ELSE IF inner[i].rule # "call_args" THEN Panic
    ELSE Then(CallArgs(inner[i].inner, 1, Append(path, i), <<>>),
              LAMBDA a : CallParts(inner, i + 1, path, a))

parse_call(expr, loc) ==
    IF Len(expr.inner) = 0 THEN Panic
    ELSE Then(CallParts(expr.inner, 2, loc, <<>>),
              LAMBDA a :
                Ok([kind |-> "Call", loc |-> loc,
                    name |-> [name |-> NameFrom(expr.inner[1].text),
                              loc |-> Append(loc, 1), ptr |-> <<>>],
                    args |-> a]))

\* the element loop of an array_init node
ArrayInitFields(inner, i, path, acc) ==
    IF i > Len(inner) THEN Ok(acc)
    ELSE IF inner[i].rule # "termish" THEN Panic
    ELSE Then(parse_expr(inner[i], Append(path, i)),
              LAMBDA v : ArrayInitFields(inner, i + 1, path, Append(acc, v)))

\* the field loop of a struct_init node, after the target type
StructInitFields(inner, i, path, acc) ==
    IF i > Len(inner) THEN Ok(acc)
    ELSE IF inner[i].rule # "struct_init_field" THEN Panic
    ELSE IF Len(inner[i].inner) < 2 THEN Panic
    ELSE Then(parse_expr(inner[i].inner[2], Append(Append(path, i), 2)),
              LAMBDA v :
                StructInitFields(inner, i + 1, path,
                    Append(acc, [name |-> inner[i].inner[1].text, expr |-> v])))

AccessOp(rule) ==
    CASE rule = "ptr_access" -> "->"
      [] rule = "member_access" -> "."
      [] rule = "array_access" -> "["

\* the expression one non-infix child of an expression node stands for
BuildOperand(expr, loc) ==
    CASE expr.rule = "unarypre" ->
            IF Len(expr.inner) < 2 THEN Panic
            ELSE Then(ExprHead(expr.inner[2], Append(loc, 2), {"termish"}),
                      LAMBDA h :
                        Ok([kind |-> "UnaryPre", expr |-> h,
                            op |-> expr.inner[1].text, loc |-> loc]))
      [] expr.rule = "unarypost" ->
            IF Len(expr.inner) < 1 THEN Panic
            ELSE Then(ExprHead(expr.inner[1], Append(loc, 1), {"expr"}),
                      LAMBDA h :
                        IF Len(expr.inner) < 2 THEN Panic
                        ELSE Ok([kind |-> "UnaryPost", expr |-> h,
                                 op |-> expr.inner[2].text, loc |-> loc]))
      [] expr.rule = "cast" ->
            IF Len(expr.inner) < 1 THEN Panic
            ELSE Then(parse_anon_type(expr.inner[1], Append(loc, 1)),
                      LAMBDA into :
                        IF Len(expr.inner) < 2 THEN Panic
                        ELSE Then(parse_expr(expr.inner[2], Append(loc, 2)),
                                  LAMBDA e :
                                    Ok([kind |-> "Cast", loc |-> loc,
                                        into |-> into, expr |-> e])))
      [] expr.rule \in {"ptr_access", "member_access", "array_access"} ->
            IF Len(expr.inner) < 1 THEN Panic
            ELSE Then(ExprHead(expr.inner[1], Append(loc, 1), {"termish", "expr"}),
                      LAMBDA lhs :
                        IF Len(expr.inner) < 2 THEN Panic
                        ELSE IF AccessOp(expr.rule) = "["
                        THEN IF expr.inner[2].rule # "array" THEN Panic
                             ELSE IF Len(expr.inner[2].inner) = 0 THEN Panic
                             ELSE Then(parse_expr(expr.inner[2].inner[1],
                                                  Append(Append(loc, 2), 1)),
                                       LAMBDA rhs :
                                         Ok([kind |-> "ArrayAccess", lhs |-> lhs,
                                             rhs |-> rhs, loc |-> loc]))
                        ELSE Ok([kind |-> "MemberAccess", lhs |-> lhs,
                                 rhs |-> expr.inner[2].text,
                                 op |-> AccessOp(expr.rule), loc |-> loc]))
      [] expr.rule = "type_name" -> Ok(NameExpr(expr, loc))
      [] expr.rule \in {"number_literal", "string_literal", "char_literal"} ->
            Ok([kind |-> "Literal", v |-> expr.text, loc |-> loc])
      [] expr.rule = "expr" -> parse_expr(expr, loc)
      [] expr.rule \in {"deref", "takeref"} ->
            IF Len(expr.inner) < 1 THEN Panic
            ELSE Then(ExprHead(expr.inner[1], Append(loc, 1), {"termish"}),
                      LAMBDA h :
                        Ok([kind |-> "UnaryPre",
                            op |-> IF expr.rule = "deref" THEN "*" ELSE "&",
                            loc |-> loc, expr |-> h]))
      [] expr.rule = "call" -> parse_call(expr, loc)
      [] expr.rule = "array_init" ->
            Then(ArrayInitFields(expr.inner, 1, loc, <<>>),
                 LAMBDA f : Ok([kind |-> "ArrayInit", loc |-> loc, fields |-> f]))
      [] expr.rule = "struct_init" ->
            IF Len(expr.inner) < 1 THEN Panic
            ELSE Then(parse_anon_type(expr.inner[1], Append(loc, 1)),
                      LAMBDA typed :
                        Then(StructInitFields(expr.inner, 2, loc, <<>>),
                             LAMBDA f :
                               Ok([kind |-> "StructInit", loc |-> loc,
                                   typed |-> typed, fields |-> f])))
      [] OTHER -> Panic

\* one iteration of the child loop of parse_expr
ExprScanStep(acc, expr, loc) ==
    IF expr.rule = "infix"
    THEN [acc EXCEPT !.s_op = <<[text |-> expr.text, loc |-> loc]>>]
    ELSE ExprPush(acc, BuildOperand(expr, loc))

ExprScan(acc, children, i, path) ==
    IF acc.st # "ok" \/ i > Len(children) THEN acc
    ELSE ExprScan(ExprScanStep(acc, children[i], Append(path, i)),
                  children, i + 1, path)

\* the end of parse_expr after the child loop r
ExprResult(r) == IF r.st # "ok" THEN Fail(r.st) ELSE ExprFinish(r.s_r)

parse_expr(decl, path) ==
    IF decl.rule \notin {"lhs", "expr", "termish"} THEN Panic
    ELSE ExprResult(ExprScan(ExprScanInit(path), decl.inner, 1, path))

----------------------------------------------------------------------------
(* Preprocessor integration (pp.rs) *)

\* PP::new(n, pairs): the node sequence the builder iterates over.  A
\* macro-use node ("pp_use") is expanded into the nodes it carries and an
\* annotation-only node ("pp") is filtered out; every other node is kept.
RECURSIVE PP(_)
PP(nodes) ==
    IF Len(nodes) = 0 THEN <<>>
    ELSE LET head == nodes[1]
         IN  CASE head.rule = "pp" -> PP(Tail(nodes))
               [] head.rule = "pp_use" -> head.inner \o PP(Tail(nodes))
               [] OTHER -> <<head>> \o PP(Tail(nodes))

----------------------------------------------------------------------------
(* Statement and block builder: parse_statement, parse_block *)

\* EndPoint that takes the whole span of the node
EndPointSpan(path) == [start |-> <<"start", path>>, end |-> <<"end", path>>]

\* the zero-width location at the end offset of the span of the node at path
EndPoint(path) == [start |-> <<"end", path>>, end |-> <<"end", path>>]

RECURSIVE parse_statement(_, _)
RECURSIVE parse_block(_, _)
RECURSIVE BlockStatements(_, _, _, _)
RECURSIVE ForScan(_, _, _, _)

\* the statement loop of parse_block over the preprocessed children
BlockStatements(stms, i, path, acc) ==
    IF i > Len(stms) THEN Ok(acc)
    ELSE Then(parse_statement(stms[i], Append(path, i)),
              LAMBDA v : BlockStatements(stms, i + 1, path, Append(acc, v)))

parse_block(decl, path) ==
    IF decl.rule # "block" THEN Panic
    ELSE Then(BlockStatements(PP(decl.inner), 1, path, <<>>),
              LAMBDA v : Ok([statements |-> v, end |-> EndPoint(path)]))

\* ForScanInit with the segment counter starting before the init segment
ForScanInitZero ==
    [st |-> "ok", cur |-> 0, expr1 |-> <<>>, expr2 |-> <<>>, expr3 |-> <<>>,
     block |-> <<>>]

\* expr1, expr2, expr3, block = None and cur = 1
ForScanInit ==
    [st |-> "ok", cur |-> 1, expr1 |-> <<>>, expr2 |-> <<>>, expr3 |-> <<>>,
     block |-> <<>>]

\* a child loop that takes the first block child as the loop body in
\* whatever segment it is seen
ForScanStepAnyBody(acc, part, loc) ==
    CASE part.rule = "semicolon" -> [acc EXCEPT !.cur = acc.cur + 1]
      [] part.rule = "block" /\ acc.cur \in {1, 2, 3} /\ acc.block = <<>> ->
            AccThen(acc, parse_block(part, loc),
                    LAMBDA v : [acc EXCEPT !.block = <<v>>])
      [] part.rule # "semicolon"
         /\ ~(part.rule = "block" /\ acc.cur \in {1, 2, 3} /\ acc.block = <<>>)
         /\ acc.cur \in {1, 2, 3} ->
            AccThen(acc, parse_statement(part, loc),
                    LAMBDA v :
                      CASE acc.cur = 1 -> [acc EXCEPT !.expr1 = <<v>>]
                        [] acc.cur = 2 -> [acc EXCEPT !.expr2 = <<v>>]
                        [] acc.cur = 3 -> [acc EXCEPT !.expr3 = <<v>>])
      [] OTHER -> [acc EXCEPT !.st = "panic"]

\* one iteration of the child loop of a for statement
ForScanStep(acc, part, loc) ==
    CASE part.rule = "semicolon" -> [acc EXCEPT !.cur = acc.cur + 1]
      [] part.rule = "block" /\ acc.cur = 3 /\ acc.block = <<>> ->
            AccThen(acc, parse_block(part, loc),
                    LAMBDA v : [acc EXCEPT !.block = <<v>>])
      [] part.rule # "semicolon"
         /\ ~(part.rule = "block" /\ acc.cur = 3 /\ acc.block = <<>>)
         /\ acc.cur \in {1, 2, 3} ->
            AccThen(acc, parse_statement(part, loc),
                    LAMBDA v :
                      CASE acc.cur = 1 -> [acc EXCEPT !.expr1 = <<v>>]
                        [] acc.cur = 2 -> [acc EXCEPT !.expr2 = <<v>>]
                        [] acc.cur = 3 -> [acc EXCEPT !.expr3 = <<v>>])
      [] OTHER -> [acc EXCEPT !.st = "panic"]

ForScan(acc, parts, i, path) ==
    IF acc.st # "ok" \/ i > Len(parts) THEN acc
    ELSE ForScan(ForScanStep(acc, parts[i], Append(path, i)), parts, i + 1, path)

\* Statement::For built from the state r of the child loop
ForOf(r) ==
    IF r.st # "ok" THEN Fail(r.st)
    ELSE IF r.block = <<>> THEN Panic
    ELSE Ok([kind |-> "For", e1 |-> r.expr1, e2 |-> r.expr2,
             e3 |-> r.expr3, body |-> r.block[1]])

VarScanInit == [st |-> "ok", typed |-> <<>>, assign |-> <<>>, array |-> <<>>]

\* one iteration of the child loop of a variable declaration
VarScanStep(acc, part, loc) ==
    CASE part.rule = "named_type" ->
            AccThen(acc, parse_named_type(part, loc),
                    LAMBDA v : [acc EXCEPT !.typed = <<v>>])
      [] part.rule = "expr" ->
            AccThen(acc, parse_expr(part, loc),
                    LAMBDA v : [acc EXCEPT !.assign = <<v>>])
      [] part.rule = "array" ->
            IF Len(part.inner) = 0 THEN [acc EXCEPT !.st = "panic"]
            ELSE AccThen(acc, parse_expr(part.inner[1], Append(loc, 1)),
                         LAMBDA v : [acc EXCEPT !.array = <<v>>])
      [] OTHER -> [acc EXCEPT !.st = "panic"]

RECURSIVE VarScan(_, _, _, _)
VarScan(acc, parts, i, path) ==
    IF acc.st # "ok" \/ i > Len(parts) THEN acc
    ELSE VarScan(VarScanStep(acc, parts[i], Append(path, i)), parts, i + 1, path)

\* Statement::Var built from the state r of the child loop
VarOf(r, loc) ==
    IF r.st # "ok" THEN Fail(r.st)
    ELSE IF r.typed = <<>> THEN Panic
    ELSE Ok([kind |-> "Var", loc |-> loc,
             typed |-> r.typed[1].typed, name |-> r.typed[1].name,
             tags |-> r.typed[1].tags, array |-> r.array,
             assign |-> r.assign])

AssignScanInit == [st |-> "ok", lhs |-> <<>>, rhs |-> <<>>, op |-> <<>>]

\* one iteration of the child loop of an assignment
AssignScanStep(acc, part, loc) ==
    CASE part.rule = "lhs" /\ acc.lhs = <<>> ->
            AccThen(acc, parse_expr(part, loc),
                    LAMBDA v : [acc EXCEPT !.lhs = <<v>>])
      [] part.rule = "assignop" -> [acc EXCEPT !.op = <<part.text>>]
      [] part.rule = "expr" /\ acc.rhs = <<>> ->
            AccThen(acc, parse_expr(part, loc),
                    LAMBDA v : [acc EXCEPT !.rhs = <<v>>])
      [] OTHER -> [acc EXCEPT !.st = "panic"]

RECURSIVE AssignScan(_, _, _, _)
AssignScan(acc, parts, i, path) ==
    IF acc.st # "ok" \/ i > Len(parts) THEN acc
    ELSE AssignScan(AssignScanStep(acc, parts[i], Append(path, i)), parts, i + 1, path)

\* Statement::Assign built from the state r of the child loop
AssignOf(r, loc) ==
    IF r.st # "ok" THEN Fail(r.st)
    ELSE IF r.lhs = <<>> \/ r.rhs = <<>> \/ r.op = <<>> THEN Panic
    ELSE Ok([kind |-> "Assign", loc |-> loc, lhs |-> r.lhs[1],
             rhs |-> r.rhs[1], op |-> r.op[1]])

\* CondStatement that gives every conditional the discriminant "if"
CondStatementAsIf(stm, loc, op) ==
    IF Len(stm.inner) < 1 THEN Panic
    ELSE Then(parse_expr(stm.inner[1], Append(loc, 1)),
              LAMBDA e :
                IF Len(stm.inner) < 2 THEN Panic
                ELSE Then(parse_block(stm.inner[2], Append(loc, 2)),
                          LAMBDA b :
                            Ok([kind |-> "Cond", op |-> "if", expr |-> <<e>>,
                                body |-> b])))

\* if_stm and elseif_stm: a condition expression and a body block
CondStatement(stm, loc, op) ==
    IF Len(stm.inner) < 1 THEN Panic
    ELSE Then(parse_expr(stm.inner[1], Append(loc, 1)),
              LAMBDA e :
                IF Len(stm.inner) < 2 THEN Panic
                ELSE Then(parse_block(stm.inner[2], Append(loc, 2)),
                          LAMBDA b :
                            Ok([kind |-> "Cond", op |-> op, expr |-> <<e>>,
                                body |-> b])))

parse_statement(stm, loc) ==
    CASE stm.rule = "mark_stm" ->
            IF Len(stm.inner) < 1 THEN Panic
            ELSE Then(parse_expr(stm.inner[1], Append(loc, 1)),
                      LAMBDA lhs :
                        IF Len(stm.inner) < 2 THEN Panic
                        ELSE IF Len(stm.inner[2].inner) < 1 THEN Panic
                        ELSE Ok([kind |-> "Mark", loc |-> loc, lhs |-> lhs,
                                 key |-> stm.inner[2].inner[1].text,
                                 value |-> IF Len(stm.inner[2].inner) >= 2
                                           THEN stm.inner[2].inner[2].text ELSE ""]))
      [] stm.rule = "label" ->
            IF Len(stm.inner) < 1 THEN Panic
            ELSE Ok([kind |-> "Label", loc |-> loc, label |-> stm.inner[1].text])
      [] stm.rule = "continue_stm" -> Ok([kind |-> "Continue", loc |-> loc])
      [] stm.rule = "break_stm" -> Ok([kind |-> "Break", loc |-> loc])
      [] stm.rule = "goto_stm" ->
            IF Len(stm.inner) < 1 THEN Panic
            ELSE Ok([kind |-> "Goto", loc |-> loc, label |-> stm.inner[1].text])
      [] stm.rule = "block" ->
            Then(parse_block(stm, loc),
                 LAMBDA b : Ok([kind |-> "Block", block |-> b]))
      [] stm.rule = "return_stm" ->
            IF Len(stm.inner) < 1 THEN Panic
            ELSE IF stm.inner[1].rule # "key_return" THEN Panic
            ELSE IF Len(stm.inner) < 2
            THEN Ok([kind |-> "Return", expr |-> <<>>, loc |-> loc])
            ELSE Then(parse_expr(stm.inner[2], Append(loc, 2)),
                      LAMBDA e : Ok([kind |-> "Return", expr |-> <<e>>, loc |-> loc]))
      [] stm.rule = "expr" ->
            Then(parse_expr(stm, loc),
                 LAMBDA e : Ok([kind |-> "Expr", expr |-> e, loc |-> loc]))
      [] stm.rule = "if_stm" -> CondStatement(stm, loc, "if")
      [] stm.rule = "elseif_stm" -> CondStatement(stm, loc, "else if")
      [] stm.rule = "else_stm" ->
            IF Len(stm.inner) < 1 THEN Panic
            ELSE Then(parse_block(stm.inner[1], Append(loc, 1)),
                      LAMBDA b :
                        Ok([kind |-> "Cond", op |-> "else", expr |-> <<>>,
                            body |-> b]))
      [] stm.rule = "for_stm" -> ForOf(ForScan(ForScanInit, stm.inner, 1, loc))
      [] stm.rule = "vardecl" -> VarOf(VarScan(VarScanInit, stm.inner, 1, loc), loc)
      [] stm.rule = "assign" ->
            AssignOf(AssignScan(AssignScanInit, stm.inner, 1, loc), loc)
      [] OTHER -> Panic

----------------------------------------------------------------------------
(* Top-level declaration builder: the arms of the module-level loop of p *)

\* the children of an exported node: every ident sets the rename
RECURSIVE ExportRename(_, _, _)
ExportRename(inner, i, export_as) ==
    IF i > Len(inner) THEN Ok(export_as)
    ELSE IF inner[i].rule # "ident" THEN Panic
    ELSE ExportRename(inner, i + 1, <<inner[i].text>>)

\* the texts of the children of a macro_args node, appended to args
MacroArgs(args, inner) == args \o [i \in 1..Len(inner) |-> inner[i].text]

ImacroScanInit ==
    [st |-> "ok", name |-> <<>>, args |-> <<>>, export_as |-> <<>>,
     body |-> <<>>, vis |-> "Object"]

\* one iteration of the part loop of a macro declaration
ImacroScanStep(acc, part, loc) ==
    CASE part.rule = "key_shared" -> [acc EXCEPT !.vis = "Shared"]
      [] part.rule = "exported" ->
            AccThen(acc, ExportRename(part.inner, 1, acc.export_as),
                    LAMBDA v : [acc EXCEPT !.vis = "Export", !.export_as = v])
      [] part.rule = "ident" /\ acc.name = <<>> -> [acc EXCEPT !.name = <<part.text>>]
      [] part.rule = "macro_args" ->
            [acc EXCEPT !.args = MacroArgs(acc.args, part.inner)]
      [] part.rule = "block" /\ acc.body = <<>> ->
            AccThen(acc, parse_block(part, loc),
                    LAMBDA v : [acc EXCEPT !.body = <<v>>])
      [] OTHER -> [acc EXCEPT !.st = "panic"]

RECURSIVE ImacroScan(_, _, _, _)
ImacroScan(acc, parts, i, path) ==
    IF acc.st # "ok" \/ i > Len(parts) THEN acc
    ELSE ImacroScan(ImacroScanStep(acc, parts[i], Append(path, i)), parts, i + 1, path)

\* Rule::imacro: the Local pushed for a macro declaration
MacroOf(r, loc) ==
    IF r.st # "ok" THEN Fail(r.st)
    ELSE IF r.name = <<>> \/ r.body = <<>> THEN Panic
    ELSE Ok([export_as |-> r.export_as, name |-> r.name[1], vis |-> r.vis,
             loc |-> loc,
             def |-> [kind |-> "Macro", args |-> r.args, body |-> r.body[1]]])

LocalOfImacro(decl, loc) ==
    MacroOf(ImacroScan(ImacroScanInit, decl.inner, 1, loc), loc)

\* the argument loop of an fn_args node; acc is [st, args, vararg]
RECURSIVE FnArgs(_, _, _, _)
FnArgs(acc, inner, i, path) ==
    IF acc.st # "ok" \/ i > Len(inner) THEN acc
    ELSE IF inner[i].rule = "vararg"
    THEN FnArgs([acc EXCEPT !.vararg = TRUE], inner, i + 1, path)
    ELSE AccThen(acc, parse_named_type(inner[i], Append(path, i)),
                 LAMBDA t :
                   FnArgs([acc EXCEPT !.args =
                             Append(acc.args, [name |-> t.name, typed |-> t.typed,
                                               tags |-> t.tags,
                                               loc |-> Append(path, i)])],
                          inner, i + 1, path))

\* the function's state after the argument loop a
FnArgsInto(acc, a) ==
    IF a.st # "ok" THEN [acc EXCEPT !.st = a.st]
    ELSE [acc EXCEPT !.args = a.args, !.vararg = a.vararg]

FunctionScanInit ==
    [st |-> "ok", name |-> "", export_as |-> <<>>, args |-> <<>>, ret |-> <<>>,
     body |-> <<>>, vararg |-> FALSE, vis |-> "Object"]

\* one iteration of the part loop of a function declaration
FunctionScanStep(acc, part, loc) ==
    CASE part.rule = "key_shared" -> [acc EXCEPT !.vis = "Shared"]
      [] part.rule = "exported" ->
            AccThen(acc, ExportRename(part.inner, 1, acc.export_as),
                    LAMBDA v : [acc EXCEPT !.vis = "Export", !.export_as = v])
      [] part.rule = "ident" -> [acc EXCEPT !.name = part.text]
      [] part.rule = "ret_arg" ->
            IF Len(part.inner) = 0 THEN [acc EXCEPT !.st = "panic"]
            ELSE AccThen(acc, parse_anon_type(part.inner[1], Append(loc, 1)),
                         LAMBDA t : [acc EXCEPT !.ret = <<[typed |-> t]>>])
      [] part.rule = "fn_args" ->
            FnArgsInto(acc, FnArgs([st |-> "ok", args |-> acc.args,
                                    vararg |-> acc.vararg], part.inner, 1, loc))
      [] part.rule = "block" ->
            AccThen(acc, parse_block(part, loc),
                    LAMBDA v : [acc EXCEPT !.body = <<v>>])
      [] OTHER -> [acc EXCEPT !.st = "panic"]

RECURSIVE FunctionScan(_, _, _, _)
FunctionScan(acc, parts, i, path) ==
    IF acc.st # "ok" \/ i > Len(parts) THEN acc
    ELSE FunctionScan(FunctionScanStep(acc, parts[i], Append(path, i)),
                      parts, i + 1, path)

\* Rule::function: the Local pushed for a function declaration
FunctionOf(r, loc) ==
    IF r.st # "ok" THEN Fail(r.st)
    ELSE IF r.body = <<>> THEN Panic
    ELSE Ok([name |-> r.name, export_as |-> r.export_as, vis |-> r.vis,
             loc |-> loc,
             def |-> [kind |-> "Function", ret |-> r.ret, args |-> r.args,
                      body |-> r.body[1], vararg |-> r.vararg]])

LocalOfFunction(decl, loc) ==
    FunctionOf(FunctionScan(FunctionScanInit, decl.inner, 1, loc), loc)

StructScanInit ==
    [st |-> "ok", vis |-> "Object", name |-> <<>>, export_as |-> <<>>,
     fields |-> <<>>, loc |-> <<>>, packed |-> FALSE]

\* Rule::struct_f: one field of a struct
StructField(part, loc) ==
    IF Len(part.inner) = 0 THEN Panic
    ELSE Then(parse_named_type(part.inner[1], Append(loc, 1)),
              LAMBDA t :
                IF Len(part.inner) < 2
                THEN Ok([typed |-> t.typed, array |-> <<>>, tags |-> t.tags,
                         name |-> t.name, loc |-> loc])
                ELSE IF Len(part.inner[2].inner) = 0 THEN Panic
                ELSE Then(parse_expr(part.inner[2].inner[1],
                                     Append(Append(loc, 2), 1)),
                          LAMBDA e :
                            Ok([typed |-> t.typed, array |-> <<e>>,
                                tags |-> t.tags, name |-> t.name, loc |-> loc])))

\* one iteration of the part loop of a struct declaration
StructScanStep(acc, part, loc) ==
    CASE part.rule = "key_packed" -> [acc EXCEPT !.packed = TRUE]
      [] part.rule = "key_shared" -> [acc EXCEPT !.vis = "Shared"]
      [] part.rule = "exported" ->
            AccThen(acc, ExportRename(part.inner, 1, acc.export_as),
                    LAMBDA v : [acc EXCEPT !.vis = "Export", !.export_as = v])
      [] part.rule = "ident" -> [acc EXCEPT !.loc = <<loc>>, !.name = <<part.text>>]
      [] part.rule = "struct_f" ->
            AccThen(acc, StructField(part, loc),
                    LAMBDA f : [acc EXCEPT !.fields = Append(acc.fields, f)])
      [] OTHER -> [acc EXCEPT !.st = "panic"]

RECURSIVE StructScan(_, _, _, _)
StructScan(acc, parts, i, path) ==
    IF acc.st # "ok" \/ i > Len(parts) THEN acc
    ELSE StructScan(StructScanStep(acc, parts[i], Append(path, i)), parts, i + 1, path)

\* Rule::struct_d: the Local pushed for a struct declaration
StructOf(r) ==
    IF r.st # "ok" THEN Fail(r.st)
    ELSE IF r.name = <<>> \/ r.loc = <<>> THEN Panic
    ELSE Ok([name |-> r.name[1], export_as |-> r.export_as, vis |-> r.vis,
             loc |-> r.loc[1],
             def |-> [kind |-> "Struct", fields |-> r.fields,
                      packed |-> r.packed]])

LocalOfStruct(decl, loc) ==
    StructOf(StructScan(StructScanInit, PP(decl.inner), 1, loc))

\* the local_i loop of a local node of an import name
RECURSIVE ImportLocals(_, _, _)
ImportLocals(inner, i, acc) ==
    IF i > Len(inner) THEN Ok(acc)
    ELSE IF inner[i].rule # "local_i" THEN Panic
    ELSE IF Len(inner[i].inner) = 0 THEN Panic
    ELSE LET nm == inner[i].inner[1]
         IN  IF nm.rule = "ident"
             THEN ImportLocals(inner, i + 1,
                    Append(acc, [name |-> nm.text,
                                 import_as |-> IF Len(inner[i].inner) >= 2
                                               THEN <<inner[i].inner[2].text>> ELSE <<>>]))
             ELSE IF nm.rule = "qident" /\ Len(nm.inner) >= 1
             THEN ImportLocals(inner, i + 1,
                    Append(acc, [name |-> nm.inner[1].text,
                                 import_as |-> IF Len(inner[i].inner) >= 2
                                               THEN <<inner[i].inner[2].text>> ELSE <<>>]))
             ELSE Panic

\* v.extend(v2) and locals.extend(l2) with the outcome sub of the nested call
ImportNameJoin(acc, sub) ==
    IF sub.st # "ok" THEN [acc EXCEPT !.st = sub.st]
    ELSE [acc EXCEPT !.v = acc.v \o sub.v, !.locals = acc.locals \o sub.locals]

\* parse_importname; acc is [st, v, locals]
RECURSIVE ImportNameScan(_, _, _)
ImportNameScan(acc, inner, i) ==
    IF acc.st # "ok" \/ i > Len(inner) THEN acc
    ELSE LET part == inner[i]
         IN  CASE part.rule = "cimport" ->
                    ImportNameScan([acc EXCEPT !.v = <<"", "ext", part.text>>],
                                   inner, i + 1)
               [] part.rule = "ident" ->
                    ImportNameScan([acc EXCEPT !.v = Append(acc.v, part.text)],
                                   inner, i + 1)
               [] part.rule = "local" ->
                    AccThen(acc, ImportLocals(part.inner, 1, acc.locals),
                            LAMBDA l :
                              ImportNameScan([acc EXCEPT !.locals = l], inner, i + 1))
               [] part.rule \in {"type_name", "importname"} ->
                    ImportNameScan(
                        ImportNameJoin(acc,
                            ImportNameScan([st |-> "ok", v |-> <<>>, locals |-> <<>>],
                                           part.inner, 1)),
                        inner, i + 1)
               [] OTHER -> [acc EXCEPT !.st = "panic"]

parse_importname(decl) ==
    ImportNameScan([st |-> "ok", v |-> <<>>, locals |-> <<>>], decl.inner, 1)

\* importname = Some(parse_importname(n, part)) with its outcome r
ImportNameInto(acc, r) ==
    IF r.st # "ok" THEN [acc EXCEPT !.st = r.st]
    ELSE [acc EXCEPT !.importname = <<[name |-> r.v, local |-> r.locals]>>]

\* the part loop of an import declaration; acc is [st, vis, importname, alias]
RECURSIVE ImportScan(_, _, _)
ImportScan(acc, parts, i) ==
    IF acc.st # "ok" \/ i > Len(parts) THEN acc
    ELSE LET part == parts[i]
         IN  CASE part.rule = "importname" ->
                    ImportScan(ImportNameInto(acc, parse_importname(part)),
                               parts, i + 1)
               [] part.rule = "exported" ->
                    ImportScan([acc EXCEPT !.vis = "Export"], parts, i + 1)
               [] part.rule = "importalias" ->
                    IF Len(part.inner) = 0 THEN [acc EXCEPT !.st = "panic"]
                    ELSE ImportScan([acc EXCEPT !.alias = <<part.inner[1].text>>],
                                    parts, i + 1)
               [] OTHER -> [acc EXCEPT !.st = "panic"]

\* Rule::import: the Import pushed for an import declaration
ImportResult(r, loc) ==
    IF r.st # "ok" THEN Fail(r.st)
    ELSE IF r.importname = <<>> THEN Panic
    ELSE Ok([name |-> r.importname[1].name, alias |-> r.alias,
             local |-> r.importname[1].local, vis |-> r.vis, loc |-> loc])

ImportOf(decl, loc) ==
    ImportResult(ImportScan([st |-> "ok", vis |-> "Object", importname |-> <<>>,
                             alias |-> <<>>], decl.inner, 1), loc)

\* StaticScanInit with Atomic as the storage of a declaration without keyword
StaticScanInitAtomic ==
    [st |-> "ok", storage |-> "Atomic", vis |-> "Object", typed |-> <<>>,
     expr |-> <<>>]

\* let mut storage = Storage::Static; vis = Visibility::Object; None; None
StaticScanInit ==
    [st |-> "ok", storage |-> "Static", vis |-> "Object", typed |-> <<>>,
     expr |-> <<>>]

\* StaticVisibility that lets a static take the visibility like a constant
StaticVisibilityAllowed(acc, rule, vis) == [acc EXCEPT !.vis = vis]

\* Rule::key_shared and Rule::exported of a static or constant: a static
\* logs "cannot change visibility of static variable" and exits with 9
StaticVisibility(acc, rule, vis) ==
    IF rule = "istatic" THEN [acc EXCEPT !.st = "exit9"]
    ELSE [acc EXCEPT !.vis = vis]

\* one iteration of the part loop of a static or constant declaration
StaticScanStep(acc, part, loc, rule) ==
    CASE part.rule = "key_thread_local" -> [acc EXCEPT !.storage = "ThreadLocal"]
      [] part.rule = "key_static" -> [acc EXCEPT !.storage = "Static"]
      [] part.rule = "key_atomic" -> [acc EXCEPT !.storage = "Atomic"]
      [] part.rule = "key_shared" -> StaticVisibility(acc, rule, "Shared")
      [] part.rule = "exported" -> StaticVisibility(acc, rule, "Export")
      [] part.rule = "named_type" ->
            AccThen(acc, parse_named_type(part, loc),
                    LAMBDA t : [acc EXCEPT !.typed = <<t>>])
      [] part.rule = "expr" /\ acc.expr = <<>> ->
            AccThen(acc, parse_expr(part, loc),
                    LAMBDA e : [acc EXCEPT !.expr = <<e>>])
      [] OTHER -> [acc EXCEPT !.st = "panic"]

RECURSIVE StaticScan(_, _, _, _, _)
StaticScan(acc, parts, i, path, rule) ==
    IF acc.st # "ok" \/ i > Len(parts) THEN acc
    ELSE StaticScan(StaticScanStep(acc, parts[i], Append(path, i), rule),
                    parts, i + 1, path, rule)

\* StaticOf that lets a constant keep the tags of its named type unseen
StaticOfAnyTags(r, rule, loc) ==
    IF r.st # "ok" THEN Fail(r.st)
    ELSE IF r.typed = <<>> THEN Panic
    ELSE IF r.expr = <<>> THEN Panic
    ELSE IF rule = "constant"
    THEN Ok([export_as |-> <<>>, name |-> r.typed[1].name, loc |-> loc,
             vis |-> r.vis,
             def |-> [kind |-> "Const", typed |-> r.typed[1].typed,
                      expr |-> r.expr[1]]])
    ELSE Ok([export_as |-> <<>>, name |-> r.typed[1].name, loc |-> loc,
             vis |-> "Object",
             def |-> [kind |-> "Static", tags |-> r.typed[1].tags,
                      storage |-> r.storage, typed |-> r.typed[1].typed,
                      expr |-> r.expr[1]]])

\* Rule::istatic | Rule::constant: the Local pushed for the declaration
StaticOf(r, rule, loc) ==
    IF r.st # "ok" THEN Fail(r.st)
    ELSE IF r.typed = <<>> THEN Panic
    ELSE IF rule = "constant"
    THEN IF Len(r.typed[1].tags) > 0 THEN Exit9
         ELSE IF r.expr = <<>> THEN Panic
         ELSE Ok([export_as |-> <<>>, name |-> r.typed[1].name, loc |-> loc,
                  vis |-> r.vis,
                  def |-> [kind |-> "Const", typed |-> r.typed[1].typed,
                           expr |-> r.expr[1]]])
    ELSE IF r.expr = <<>> THEN Panic
    ELSE Ok([export_as |-> <<>>, name |-> r.typed[1].name, loc |-> loc,
             vis |-> "Object",
             def |-> [kind |-> "Static", tags |-> r.typed[1].tags,
                      storage |-> r.storage, typed |-> r.typed[1].typed,
                      expr |-> r.expr[1]]])

LocalOfStatic(decl, loc) ==
    StaticOf(StaticScan(StaticScanInit, decl.inner, 1, loc, decl.rule),
             decl.rule, loc)

----------------------------------------------------------------------------
(* Specification of the type builder: one type node in, one outcome out *)

TypeParts ==
    { Leaf("ptr", "*"),
      Leaf("key_mut", "mut"),
      N("tag_name", "safe", <<Leaf("ident", "safe")>>),
      N("tag_name", "len(4)", <<Leaf("ident", "len"), Leaf("tag_value", "4")>>),
      Leaf("ident", "x"),
      Leaf("key_shared", "shared") }

TypeNodes ==
    { N(r, "t", <<Leaf("type_name", "int")>> \o ps) :
        r \in {"named_type", "anon_type"}, ps \in SeqsUpTo(TypeParts, MaxTypeParts) }

\* the value of a variable that a specification does not use
Idle == <<>>

AnonInt == N("anon_type", "int", <<Leaf("type_name", "int")>>)

AnonIntMut ==
    N("anon_type", "int mut", <<Leaf("type_name", "int"), Leaf("key_mut", "mut")>>)

ExprOf(parts) == N("expr", "e", parts)

TypeInit ==
    /\ tnode \in TypeNodes
    /\ tres = <<>>
    /\ enode = Idle /\ eres = Idle
    /\ src = Idle /\ status = Idle /\ idx = Idle
    /\ locals = Idle /\ imports = Idle /\ logged = Idle
    /\ wstack = Idle /\ wstatus = Idle /\ wmax = Idle
    /\ snode = Idle /\ sres = Idle

ApplyNamedType ==
    /\ tres = <<>>
    /\ tnode.rule = "named_type"
    /\ tres' = <<parse_named_type(tnode, <<>>)>>
    /\ UNCHANGED <<tnode, exprVars, modVars, walkVars, stmtVars>>

ApplyAnonType ==
    /\ tres = <<>>
    /\ tnode.rule = "anon_type"
    /\ tres' = <<parse_anon_type(tnode, <<>>)>>
    /\ UNCHANGED <<tnode, exprVars, modVars, walkVars, stmtVars>>

TypeNext == ApplyNamedType \/ ApplyAnonType

SpecType == TypeInit /\ [][TypeNext]_vars

----------------------------------------------------------------------------
(* Specification of the expression builder: one node in, one outcome out *)

ExprParts ==
    { Leaf("infix", "+"),
      Leaf("infix", "*"),
      Leaf("type_name", "a"),
      Leaf("number_literal", "1"),
      ExprOf(<<Leaf("type_name", "b"), Leaf("infix", "-"), Leaf("type_name", "c")>>),
      N("unarypre", "!a", <<Leaf("preop", "!"), Leaf("type_name", "a")>>),
      N("cast", "(int mut)a", <<AnonIntMut, ExprOf(<<Leaf("type_name", "a")>>)>>),
      N("call", "f(1)", <<Leaf("type_name", "f"),
                          N("call_args", "1", <<ExprOf(<<Leaf("number_literal", "1")>>)>>)>>) }

ExprNodes == { ExprOf(ps) : ps \in SeqsUpTo(ExprParts, MaxExprParts) }

ExprInit ==
    /\ enode \in ExprNodes
    /\ eres = <<>>
    /\ tnode = Idle /\ tres = Idle
    /\ src = Idle /\ status = Idle /\ idx = Idle
    /\ locals = Idle /\ imports = Idle /\ logged = Idle
    /\ wstack = Idle /\ wstatus = Idle /\ wmax = Idle
    /\ snode = Idle /\ sres = Idle

ApplyParseExpr ==
    /\ eres = <<>>
    /\ eres' = <<parse_expr(enode, <<>>)>>
    /\ UNCHANGED <<enode, typeVars, modVars, walkVars, stmtVars>>

ExprNext == ApplyParseExpr

SpecExpr == ExprInit /\ [][ExprNext]_vars

----------------------------------------------------------------------------
(* Specification of the statement builder: one node in, one outcome out *)

Block0 == N("block", "{}", <<>>)

SumExpr == ExprOf(<<Leaf("type_name", "a"), Leaf("infix", "+"), Leaf("type_name", "b")>>)

OneExpr == ExprOf(<<Leaf("number_literal", "0")>>)

BlockParts ==
    { N("if_stm", "if (a + b) {}", <<SumExpr, Block0>>),
      N("elseif_stm", "else if (0) {}", <<OneExpr, Block0>>),
      N("else_stm", "else {}", <<Block0>>),
      N("else_stm", "else { if (0) {} }",
        <<N("block", "{ if (0) {} }", <<N("if_stm", "if (0) {}", <<OneExpr, Block0>>)>>)>>),
      OneExpr,
      Leaf("pp", "#") }

BlockNodes == { N("block", "{..}", ps) : ps \in SeqsUpTo(BlockParts, MaxBlockParts) }

ForParts == { Leaf("semicolon", ";"), OneExpr, SumExpr, Block0 }

ForNodes == { N("for_stm", "for", ps) : ps \in SeqsUpTo(ForParts, MaxForParts) }

StmtInit ==
    /\ snode \in BlockNodes \cup ForNodes
    /\ sres = <<>>
    /\ tnode = Idle /\ tres = Idle
    /\ enode = Idle /\ eres = Idle
    /\ src = Idle /\ status = Idle /\ idx = Idle
    /\ locals = Idle /\ imports = Idle /\ logged = Idle
    /\ wstack = Idle /\ wstatus = Idle /\ wmax = Idle

ApplyParseBlock ==
    /\ sres = <<>>
    /\ snode.rule = "block"
    /\ sres' = <<parse_block(snode, <<>>)>>
    /\ UNCHANGED <<snode, typeVars, exprVars, modVars, walkVars>>

ApplyParseStatement ==
    /\ sres = <<>>
    /\ snode.rule # "block"
    /\ sres' = <<parse_statement(snode, <<>>)>>
    /\ UNCHANGED <<snode, typeVars, exprVars, modVars, walkVars>>

StmtNext == ApplyParseBlock \/ ApplyParseStatement

SpecStmt == StmtInit /\ [][StmtNext]_vars

----------------------------------------------------------------------------
(* Specification of parse: the module-level loop of p over one source file *)

Shared == Leaf("key_shared", "shared")

Exported == Leaf("exported", "export")

ExportedAs == N("exported", "export as x", <<Leaf("ident", "x")>>)

Ident(t) == Leaf("ident", t)

\* a named type node: base name int, the given parts, then the name
NamedInt(parts, name) ==
    N("named_type", "int", <<Leaf("type_name", "int")>> \o parts \o <<Ident(name)>>)

BlockRet ==
    N("block", "{ return a + b; }",
      <<N("return_stm", "return a + b", <<Leaf("key_return", "return"), SumExpr>>)>>)

NameLists == {<<>>, <<Ident("f")>>, <<Ident("f"), Ident("g")>>}

FunctionNodes ==
    { N("function", "fn", vis \o names \o <<BlockRet>>) :
        vis \in {<<>>, <<ExportedAs>>, <<ExportedAs, Shared>>}, names \in NameLists }
    \cup
    { N("function", "fn", <<Ident("f")>>),
      N("function", "fn", <<Ident("f"), N("ret_arg", "int mut", <<AnonIntMut>>), Block0>>),
      N("function", "fn",
        <<Exported, Ident("add"),
          N("fn_args", "a, b", <<NamedInt(<<>>, "a"), NamedInt(<<>>, "b")>>),
          N("ret_arg", "int", <<AnonInt>>), BlockRet>>) }

MacroNodes ==
    { N("imacro", "macro", vis \o names \o <<Block0>>) :
        vis \in {<<>>, <<Shared>>}, names \in NameLists }

StructNodes ==
    { N("struct_d", "struct", vis \o names \o
          <<N("struct_f", "int x", <<NamedInt(<<>>, "x")>>),
            Leaf("pp", "#"),
            N("struct_f", "int y", <<NamedInt(<<>>, "y")>>)>>) :
        vis \in {<<>>, <<Exported>>}, names \in NameLists }

ImportNodes ==
    { N("import", "using", <<N("importname", "a::b", <<Ident("a"), Ident("b")>>)>>),
      N("import", "using",
        <<Exported,
          N("importname", "a::{c}",
            <<Ident("a"), N("local", "{c}", <<N("local_i", "c", <<Ident("c")>>)>>)>>),
          N("importalias", "as z", <<Ident("z")>>)>>) }

StaticTypes == { NamedInt(<<>>, "counter"), NamedInt(<<Leaf("key_mut", "mut")>>, "counter") }

StaticNodes ==
    { N("istatic", "static", storage \o vis \o <<ty, OneExpr>>) :
        storage \in {<<>>, <<Leaf("key_atomic", "atomic")>>},
        vis \in {<<>>, <<Shared>>, <<ExportedAs>>},
        ty \in StaticTypes }
    \cup
    { N("istatic", "static", <<NamedInt(<<>>, "counter")>>),
      N("istatic", "static",
        <<N("named_type", "int *", <<Leaf("type_name", "int"), Leaf("ptr", "*")>>),
          OneExpr>>) }

ConstantNodes ==
    { N("constant", "const", vis \o <<ty, OneExpr>>) :
        vis \in {<<>>, <<Shared>>, <<Exported>>, <<ExportedAs>>}, ty \in StaticTypes }

OtherNodes ==
    { Leaf("comment", "//"), Leaf("EOI", ""), Leaf("pp", "#"), Leaf("vardecl", "int x") }

TopNodes ==
    FunctionNodes \cup MacroNodes \cup StructNodes \cup ImportNodes
        \cup StaticNodes \cup ConstantNodes \cup OtherNodes

Sources ==
    { [file |-> "accepted", nodes |-> f] : f \in SeqsUpTo(TopNodes, MaxDecls) }
        \cup { [file |-> "rejected", nodes |-> <<>>],
               [file |-> "missing", nodes |-> <<>>] }

\* the nodes the module-level loop iterates over
Decls == PP(src.nodes)

\* LoggedAfter for an exit that gives no diagnostic to the log
LoggedAfterSilent(n, st) == n

\* error!(...) precedes every std::process::exit(9)
LoggedAfter(n, st) == IF st = "exit9" THEN n + 1 ELSE n

\* LocalsPush that puts the new Local in front
LocalsPushFront(ls, l) == <<l>> \o ls

\* module.locals.push(l)
LocalsPush(ls, l) == Append(ls, l)

Init ==
    /\ src \in Sources
    /\ status = "start"
    /\ idx = 1
    /\ locals = <<>>
    /\ imports = <<>>
    /\ logged = 0
    /\ tnode = Idle /\ tres = Idle
    /\ enode = Idle /\ eres = Idle
    /\ wstack = Idle /\ wstatus = Idle /\ wmax = Idle
    /\ snode = Idle /\ sres = Idle

\* n.canonicalize().unwrap() and File::open(n).expect(..) on a path that
\* cannot be opened
OpenFails ==
    /\ status = "start"
    /\ src.file = "missing"
    /\ status' = "panic"
    /\ UNCHANGED <<src, idx, locals, imports, logged, typeVars, exprVars, walkVars, stmtVars>>

\* ZZParser::parse(Rule::file, ..)? fails: parse logs the error and exits
GrammarError ==
    /\ status = "start"
    /\ src.file = "rejected"
    /\ status' = "exit9"
    /\ logged' = LoggedAfter(logged, "exit9")
    /\ UNCHANGED <<src, idx, locals, imports, typeVars, exprVars, walkVars, stmtVars>>

\* ZZParser::parse succeeds: the loop over the children of the file begins
GrammarAccepts ==
    /\ status = "start"
    /\ src.file = "accepted"
    /\ status' = "running"
    /\ UNCHANGED <<src, idx, locals, imports, logged, typeVars, exprVars, walkVars, stmtVars>>

AtDecl(rules) ==
    /\ status = "running"
    /\ idx <= Len(Decls)
    /\ Decls[idx].rule \in rules

\* the end of one loop iteration whose arm pushes a Local built with outcome r
PushLocal(r) ==
    /\ IF r.st = "ok"
       THEN /\ locals' = LocalsPush(locals, r.v)
            /\ idx' = idx + 1
            /\ UNCHANGED status
       ELSE /\ status' = r.st
            /\ UNCHANGED <<locals, idx>>
    /\ logged' = LoggedAfter(logged, r.st)
    /\ UNCHANGED <<src, imports, typeVars, exprVars, walkVars, stmtVars>>

PImacro ==
    /\ AtDecl({"imacro"})
    /\ PushLocal(LocalOfImacro(Decls[idx], <<idx>>))

PFunction ==
    /\ AtDecl({"function"})
    /\ PushLocal(LocalOfFunction(Decls[idx], <<idx>>))

PStructD ==
    /\ AtDecl({"struct_d"})
    /\ PushLocal(LocalOfStruct(Decls[idx], <<idx>>))

PStaticConstant ==
    /\ AtDecl({"istatic", "constant"})
    /\ PushLocal(LocalOfStatic(Decls[idx], <<idx>>))

\* the end of the loop iteration of an import built with outcome r:
\* module.imports.push(Import{..})
PushImport(r) ==
    /\ IF r.st = "ok"
       THEN /\ imports' = Append(imports, r.v)
            /\ idx' = idx + 1
            /\ UNCHANGED status
       ELSE /\ status' = r.st
            /\ UNCHANGED <<imports, idx>>
    /\ logged' = LoggedAfter(logged, r.st)
    /\ UNCHANGED <<src, locals, typeVars, exprVars, walkVars, stmtVars>>

PImport ==
    /\ AtDecl({"import"})
    /\ PushImport(ImportOf(Decls[idx], <<idx>>))

\* Rule::EOI => {} and Rule::comment => {}
PSkip ==
    /\ AtDecl({"EOI", "comment"})
    /\ idx' = idx + 1
    /\ UNCHANGED <<src, status, locals, imports, logged, typeVars, exprVars, walkVars, stmtVars>>

\* e => panic!("unexpected rule {:?} in file", e)
PUnexpected ==
    /\ status = "running"
    /\ idx <= Len(Decls)
    /\ Decls[idx].rule \notin {"imacro", "function", "struct_d", "import",
                               "istatic", "constant", "EOI", "comment"}
    /\ status' = "panic"
    /\ UNCHANGED <<src, idx, locals, imports, logged, typeVars, exprVars, walkVars, stmtVars>>

\* Ok(module): the loop is over and parse returns the Module
PReturn ==
    /\ status = "running"
    /\ idx > Len(Decls)
    /\ status' = "ok"
    /\ UNCHANGED <<src, idx, locals, imports, logged, typeVars, exprVars, walkVars, stmtVars>>

Next ==
    \/ OpenFails
    \/ GrammarError
    \/ GrammarAccepts
    \/ PImacro
    \/ PFunction
    \/ PStructD
    \/ PStaticConstant
    \/ PImport
    \/ PSkip
    \/ PUnexpected
    \/ PReturn

Spec == Init /\ [][Next]_vars

----------------------------------------------------------------------------
(* Specification of the call structure of one parse: which loop runs over   *)
(* which child sequence and which builder function it calls on which node.  *)
(* The values built are left out; an exit or halt may end the walk at any   *)
(* point.                                                                   *)

\* WChildren of loops that all take the children of the node as they are
WChildrenRaw(fr) == fr.node.inner

\* the child sequence the loop of a frame iterates over
WChildren(fr) ==
    IF fr.fn \in {"p", "struct_d", "parse_block"}
    THEN PP(fr.node.inner)
    ELSE fr.node.inner

\* the loop that a loop of fn over the children of n enters for its child c
\* at index i; "" when the child is handled without a call
WCallee(fn, n, i, c) ==
    CASE fn = "p" ->
            CASE c.rule \in {"imacro", "function", "struct_d", "import"} -> c.rule
              [] c.rule \in {"istatic", "constant"} -> "static"
              [] OTHER -> ""
      [] fn \in {"imacro", "function"} ->
            CASE c.rule = "block" -> "parse_block"
              [] fn = "function" /\ c.rule \in {"ret_arg", "fn_args"} -> c.rule
              [] OTHER -> ""
      [] fn = "ret_arg" -> IF i = 1 THEN "parse_anon_type" ELSE ""
      [] fn = "fn_args" -> IF c.rule = "vararg" THEN "" ELSE "parse_named_type"
      [] fn = "struct_d" -> IF c.rule = "struct_f" THEN "struct_f" ELSE ""
      [] fn = "struct_f" ->
            CASE i = 1 -> "parse_named_type"
              [] i = 2 -> "array"
              [] OTHER -> ""
      [] fn = "array" -> IF i = 1 THEN "parse_expr" ELSE ""
      [] fn = "static" ->
            CASE c.rule = "named_type" -> "parse_named_type"
              [] c.rule = "expr" -> "parse_expr"
              [] OTHER -> ""
      [] fn = "import" -> IF c.rule = "importname" THEN "parse_importname" ELSE ""
      [] fn = "parse_importname" ->
            IF c.rule \in {"type_name", "importname"} THEN "parse_importname" ELSE ""
      [] fn = "parse_block" -> "parse_statement"
      [] fn = "parse_statement" ->
            CASE n.rule = "mark_stm" /\ i = 1 -> "parse_expr"
              [] n.rule = "return_stm" /\ i = 2 -> "parse_expr"
              [] n.rule \in {"if_stm", "elseif_stm"} /\ i = 1 -> "parse_expr"
              [] n.rule \in {"if_stm", "elseif_stm"} /\ i = 2 -> "parse_block"
              [] n.rule = "else_stm" /\ i = 1 -> "parse_block"
              [] n.rule = "for_stm" /\ c.rule # "semicolon" -> "parse_statement"
              [] n.rule = "vardecl" /\ c.rule = "named_type" -> "parse_named_type"
              [] n.rule = "vardecl" /\ c.rule = "expr" -> "parse_expr"
              [] n.rule = "vardecl" /\ c.rule = "array" -> "array"
              [] n.rule = "assign" /\ c.rule \in {"lhs", "expr"} -> "parse_expr"
              [] OTHER -> ""
      [] fn = "parse_expr" ->
            CASE c.rule = "expr" -> "parse_expr"
              [] c.rule \in {"unarypre", "unarypost", "deref", "takeref",
                             "ptr_access", "member_access", "array_access"} -> "operand"
              [] c.rule = "cast" -> "cast"
              [] c.rule = "call" -> "parse_call"
              [] c.rule \in {"array_init", "struct_init"} -> c.rule
              [] OTHER -> ""
      [] fn = "operand" ->
            CASE c.rule \in {"termish", "expr"} -> "parse_expr"
              [] c.rule = "array" -> "array"
              [] OTHER -> ""
      [] fn = "cast" ->
            CASE i = 1 -> "parse_anon_type"
              [] i = 2 -> "parse_expr"
              [] OTHER -> ""
      [] fn = "parse_call" -> IF i >= 2 /\ c.rule = "call_args" THEN "call_args" ELSE ""
      [] fn = "call_args" -> "parse_expr"
      [] fn = "array_init" -> IF c.rule = "termish" THEN "parse_expr" ELSE ""
      [] fn = "struct_init" ->
            CASE i = 1 -> "parse_anon_type"
              [] c.rule = "struct_init_field" -> "struct_init_field"
              [] OTHER -> ""
      [] fn = "struct_init_field" -> IF i = 2 THEN "parse_expr" ELSE ""
      [] OTHER -> ""

\* the frame of a call of fn on child c of node n: parse_statement hands a
\* block node to parse_block and an expr node to parse_expr before it
\* touches any child
WEnter(fn, c, n) ==
    [fn |-> CASE fn = "parse_statement" /\ c.rule = "block" -> "parse_block"
              [] fn = "parse_statement" /\ c.rule = "expr" -> "parse_expr"
              [] OTHER -> fn,
     node |-> c, i |-> 1]

\* WAdvance that leaves the iterator where it is
WAdvanceStay(i) == i

\* the loop's iterator moves past the child it has taken
WAdvance(i) == i + 1

WTop == wstack[Len(wstack)]

WAtChild ==
    /\ wstatus = "running"
    /\ wstack # <<>>
    /\ WTop.i <= Len(WChildren(WTop))

WChild == WChildren(WTop)[WTop.i]

WTopAdvanced == [WTop EXCEPT !.i = WAdvance(WTop.i)]

NameA == Leaf("type_name", "a")

\* for (int i = 0; a; a) { if a { return (a + b); } else { a.x = f((int)a); } }
WalkFor ==
    N("for_stm", "for",
      <<N("vardecl", "int i = 0", <<NamedInt(<<>>, "i"), OneExpr>>),
        Leaf("semicolon", ";"), ExprOf(<<NameA>>),
        Leaf("semicolon", ";"), ExprOf(<<NameA>>),
        N("block", "{..}",
          <<N("if_stm", "if", <<ExprOf(<<NameA>>),
              N("block", "{..}",
                <<N("return_stm", "return",
                    <<Leaf("key_return", "return"), ExprOf(<<SumExpr>>)>>)>>)>>),
            Leaf("pp", "#"),
            N("else_stm", "else",
              <<N("block", "{..}",
                  <<N("assign", "a.x = f((int)a)",
                      <<N("lhs", "a.x", <<N("member_access", "a.x",
                                            <<NameA, Ident("x")>>)>>),
                        Leaf("assignop", "="),
                        ExprOf(<<N("call", "f(..)",
                          <<Leaf("type_name", "f"),
                            N("call_args", "..",
                              <<ExprOf(<<N("cast", "(int)a",
                                  <<AnonInt, ExprOf(<<NameA>>)>>)>>)>>)>>)>>)>>)>>)>>)>>)>>)

WalkTopNodes ==
    { N("function", "fn",
        <<Exported, Ident("f"),
          N("fn_args", "a", <<NamedInt(<<Leaf("ptr", "*")>>, "a")>>),
          N("ret_arg", "int", <<AnonInt>>),
          N("block", "{..}", <<WalkFor>>)>>),
      N("imacro", "macro", <<Ident("m"), BlockRet>>),
      N("struct_d", "struct",
        <<Ident("s"), Leaf("pp", "#"),
          N("struct_f", "int x[1]",
            <<NamedInt(<<>>, "x"), N("array", "[1]", <<OneExpr>>)>>)>>),
      N("istatic", "static", <<NamedInt(<<>>, "counter"), OneExpr>>),
      N("import", "using",
        <<N("importname", "a::b",
            <<Ident("a"), N("importname", "b", <<Ident("b")>>)>>)>>),
      Leaf("comment", "//"),
      Leaf("pp", "#") }

WalkSources ==
    { N("file", "", ds) : ds \in SeqsUpTo(WalkTopNodes, MaxWalkDecls) }

WalkInit ==
    /\ \E f \in WalkSources : wstack = <<[fn |-> "p", node |-> f, i |-> 1]>>
    /\ wstatus = "running"
    /\ wmax = 1
    /\ snode = Idle /\ sres = Idle
    /\ tnode = Idle /\ tres = Idle
    /\ enode = Idle /\ eres = Idle
    /\ src = Idle /\ status = Idle /\ idx = Idle
    /\ locals = Idle /\ imports = Idle /\ logged = Idle

\* the loop takes a child that it handles without entering another loop
WStep ==
    /\ WAtChild
    /\ WCallee(WTop.fn, WTop.node, WTop.i, WChild) = ""
    /\ wstack' = [wstack EXCEPT ![Len(wstack)] = WTopAdvanced]
    /\ UNCHANGED <<wstatus, wmax, typeVars, exprVars, modVars, stmtVars>>

\* the loop takes a child and calls a builder function on it
WCall ==
    /\ WAtChild
    /\ WCallee(WTop.fn, WTop.node, WTop.i, WChild) # ""
    /\ wstack' = Append([wstack EXCEPT ![Len(wstack)] = WTopAdvanced],
                        WEnter(WCallee(WTop.fn, WTop.node, WTop.i, WChild),
                               WChild, WTop.node))
    /\ wmax' = IF Len(wstack) + 1 > wmax THEN Len(wstack) + 1 ELSE wmax
    /\ UNCHANGED <<wstatus, typeVars, exprVars, modVars, stmtVars>>

\* the loop is over and the function returns to its caller
WReturn ==
    /\ wstatus = "running"
    /\ wstack # <<>>
    /\ WTop.i > Len(WChildren(WTop))
    /\ wstack' = Front(wstack)
    /\ wstatus' = IF Len(wstack) = 1 THEN "done" ELSE "running"
    /\ UNCHANGED <<wmax, typeVars, exprVars, modVars, stmtVars>>

\* std::process::exit(9) or a panic while a child is handled
WAbort ==
    /\ WAtChild
    /\ wstatus' = "aborted"
    /\ UNCHANGED <<wstack, wmax, typeVars, exprVars, modVars, stmtVars>>

WalkNext == WStep \/ WCall \/ WReturn \/ WAbort

\* the parse runs on one thread with nothing to wait for: a loop that can
\* take a child or return does so; nothing forces an exit or a halt
SpecWalk ==
    WalkInit /\ [][WalkNext]_vars
    /\ WF_vars(WStep) /\ WF_vars(WCall) /\ WF_vars(WReturn)

----------------------------------------------------------------------------
(* Properties of the type builder *)

IsPtr(part) == part.rule = "ptr"

IsTag(part) == part.rule \in {"key_mut", "tag_name"}

\* the children after the base name
TParts == Tail(tnode.inner)

\* every child after the base name is a pointer indicator or a tag with a key
TPartsAreTypeSyntax ==
    \A j \in 1..Len(TParts) :
        \/ TParts[j].rule \in {"ptr", "key_mut"}
        \/ TParts[j].rule = "tag_name" /\ Len(TParts[j].inner) >= 1

PtrPositions == {j \in 1..Len(TParts) : IsPtr(TParts[j])}

\* position of the i-th pointer indicator, 0 for i = 0 (the base name)
NthPtr(i) ==
    IF i = 0 THEN 0
    ELSE CHOOSE p \in PtrPositions : Cardinality({q \in PtrPositions : q <= p}) = i

\* the tag a tag child writes, as the entry the scan is expected to record
TagWritten(j) ==
    LET part == TParts[j]
    IN  [key   |-> IF part.rule = "key_mut" THEN "mutable" ELSE part.inner[1].text,
         value |-> IF part.rule = "tag_name" /\ Len(part.inner) >= 2
                   THEN part.inner[2].text ELSE "",
         loc   |-> <<j + 1>>]

\* the tags written strictly between positions a and b, in written order
TagsBetween(a, b) ==
    LET between == [j \in 1..(b - a - 1) |-> a + j]
        tagpos  == SelectSeq(between, LAMBDA j : IsTag(TParts[j]))
    IN  [n \in 1..Len(tagpos) |-> TagWritten(tagpos[n])]

\* the pointer chain of the returned descriptor, for either builder
PtrChain ==
    IF tnode.rule = "named_type" THEN tres[1].v.typed.ptr ELSE tres[1].v.ptr

TReturned == tres # <<>> /\ tres[1].st = "ok"

\* C2: a type descriptor returned by parse_named_type or parse_anon_type for
\* a node with k pointer indicators after the base name has a pointer chain
\* of length k in written order, and level i carries exactly the tags
\* written between pointer indicator i-1 (the base name for i = 1) and
\* pointer indicator i.
PointerChainFidelity ==
    TReturned =>
        /\ Len(PtrChain) = Cardinality(PtrPositions)
        /\ \A i \in 1..Len(PtrChain) :
              /\ PtrChain[i].loc = <<NthPtr(i) + 1>>
              /\ PtrChain[i].tags = TagsBetween(NthPtr(i - 1), NthPtr(i))

\* C2 witness: a builder has returned a chain of two levels, each with
\* its own tag written before its pointer indicator.
PointerChainWitness ==
    /\ TReturned
    /\ Len(PtrChain) = 2
    /\ PtrChain[1].tags # <<>>
    /\ PtrChain[2].tags # <<>>
    /\ PtrChain[1].tags # PtrChain[2].tags

\* a tag is written after the last pointer indicator (or the base name)
TrailingTag ==
    \E j \in 1..Len(TParts) :
        /\ IsTag(TParts[j])
        /\ \A q \in PtrPositions : q < j

\* C6: parse_anon_type returns a descriptor only when no tag is pending
\* after the last child; with a tag after the last pointer indicator (or
\* the base name) it exits with status 9 and returns nothing.
AnonTypeRejectsPendingTags ==
    (tnode.rule = "anon_type" /\ tres # <<>>) =>
        /\ tres[1].st = "ok" => ~TrailingTag
        /\ (TPartsAreTypeSyntax /\ TrailingTag) => tres[1].st = "exit9"
        /\ (TPartsAreTypeSyntax /\ ~TrailingTag) => tres[1].st = "ok"

\* C6 witness: an anonymous type with a tag after its last pointer
\* indicator has been rejected.
AnonTypeRejectWitness ==
    /\ tnode.rule = "anon_type"
    /\ tres # <<>> /\ tres[1].st = "exit9"
    /\ PtrPositions # {}
    /\ TrailingTag

NamedReturned == tnode.rule = "named_type" /\ TReturned

\* the position of the last pointer indicator, 0 when there is none
LastPtr == NthPtr(Cardinality(PtrPositions))

\* C15: a TypedName returned by parse_named_type has the text of the final
\* child as its name and, as its own tags, exactly the tags written after
\* the last pointer indicator (after the base name when there is none),
\* none of which is among the tags of a pointer level
TrailingTagsAreOwn ==
    NamedReturned =>
        /\ tres[1].v.name = Last(tnode.inner).text
        /\ tres[1].v.tags = TagsBetween(LastPtr, Len(TParts))
        /\ \A i \in 1..Len(PtrChain) :
              \A n \in 1..Len(tres[1].v.tags) :
                  \A q \in 1..Len(PtrChain[i].tags) :
                      PtrChain[i].tags[q] # tres[1].v.tags[n]

\* a named type with a pointer level that has a tag and with a tag of its
\* own after the pointer indicator has been returned
TrailingTagsWitness ==
    /\ NamedReturned
    /\ Len(PtrChain) = 1
    /\ PtrChain[1].tags # <<>>
    /\ tres[1].v.tags # <<>>
    /\ tres[1].v.name = "x"

\* the children after the base type name do not end in an identifier
NameMissing == Len(TParts) = 0 \/ Last(TParts).rule # "ident"

\* C16 as stated: parse_named_type ends every named type node whose
\* children after the base type name do not end in an identifier, the node
\* with no such children included, with exit status 9: it neither halts
\* nor returns a TypedName
MissingNameExits ==
    (tnode.rule = "named_type" /\ tres # <<>> /\ NameMissing) =>
        tres[1].st = "exit9"

----------------------------------------------------------------------------
(* Properties of the expression builder *)

EChildren == enode.inner

IsInfix(part) == part.rule = "infix"

\* m: the number of infix-operator tokens among the direct children
InfixCount == Cardinality({i \in 1..Len(EChildren) : IsInfix(EChildren[i])})

\* operand, infix, operand, ..., operand
Alternating ==
    /\ Len(EChildren) % 2 = 1
    /\ \A i \in 1..Len(EChildren) : IsInfix(EChildren[i]) <=> (i % 2 = 0)

EReturned == eres # <<>> /\ eres[1].st = "ok"

OperandTok(e) == [t |-> "operand", text |-> "", loc |-> <<>>, expr |-> <<e>>]

InfixTok(text, loc) == [t |-> "infix", text |-> text, loc |-> loc, expr |-> <<>>]

\* the child sequence as written: operator tokens with text and location,
\* operand children as the expression each one stands for
Written ==
    [i \in 1..Len(EChildren) |->
        IF IsInfix(EChildren[i])
        THEN InfixTok(EChildren[i].text, <<i>>)
        ELSE OperandTok(BuildOperand(EChildren[i], <<i>>).v)]

\* lhs followed by the (operator, operand) entries of rhs
Relinearize(v) ==
    [n \in 1..(2 * Len(v.rhs) + 1) |->
        IF n = 1 THEN OperandTok(v.lhs)
        ELSE IF n % 2 = 0
             THEN InfixTok(v.rhs[n \div 2].op.text, v.rhs[n \div 2].op.loc)
             ELSE OperandTok(v.rhs[(n - 1) \div 2].expr)]

\* every operand child builds
OperandsBuild ==
    \A i \in 1..Len(EChildren) :
        ~IsInfix(EChildren[i]) => BuildOperand(EChildren[i], <<i>>).st = "ok"

\* C3 as stated: for every expression node with m infix tokens among its
\* children, a returning parse_expr returns an InfixOperation whose rhs has
\* length m and whose lhs and rhs re-linearize to the child sequence.
InfixFlatnessAsStated ==
    EReturned =>
        /\ eres[1].v.kind = "InfixOperation"
        /\ Len(eres[1].v.rhs) = InfixCount
        /\ Relinearize(eres[1].v) = Written

\* C3 amended: for a node whose children alternate operand, infix, ...,
\* operand with m infix tokens, parse_expr returns whenever every operand
\* builds; for m >= 1 the result is an InfixOperation with rhs of length m
\* that re-linearizes to the child sequence, and for m = 0 it is the single
\* operand itself.
InfixFlatness ==
    Alternating =>
        /\ (eres # <<>> /\ OperandsBuild) => eres[1].st = "ok"
        /\ (EReturned /\ InfixCount = 0) =>
              eres[1].v = BuildOperand(EChildren[1], <<1>>).v
        /\ (EReturned /\ InfixCount >= 1) =>
              /\ eres[1].v.kind = "InfixOperation"
              /\ eres[1].v.loc = <<>>
              /\ Len(eres[1].v.rhs) = InfixCount
              /\ Relinearize(eres[1].v) = Written

\* C3 witness: a chain of two operators over three operands was returned.
InfixFlatnessWitness ==
    /\ EReturned
    /\ Alternating
    /\ InfixCount = 2
    /\ eres[1].v.kind = "InfixOperation"
    /\ Len(eres[1].v.rhs) = 2

\* the positions of the operand children, in order
OperandPositions ==
    SelectSeq([i \in 1..Len(EChildren) |-> i], LAMBDA i : ~IsInfix(EChildren[i]))

\* the Expression the k-th operand child stands for
OperandAt(k) ==
    BuildOperand(EChildren[OperandPositions[k]], <<OperandPositions[k]>>).v

\* the infix tokens before the first operand child
LeadingInfix ==
    {i \in 1..Len(EChildren) : IsInfix(EChildren[i]) /\ i < OperandPositions[1]}

\* the location the pending operator slot holds when the first operand is
\* emitted: the node's own, or that of the last infix token before it
FirstPairLoc ==
    IF LeadingInfix = {} THEN <<>> ELSE <<LastOf(LeadingInfix)>>

AdjacentOperands ==
    \E i \in 1..(Len(EChildren) - 1) :
        ~IsInfix(EChildren[i]) /\ ~IsInfix(EChildren[i + 1])

\* the position of the last infix token before the k-th operand child
InfixBefore(k) ==
    LastOf({i \in 1..OperandPositions[k] : IsInfix(EChildren[i])})

\* C19: (a) parse_expr never returns for a node with two operand children
\* that have no infix token between them, and halts when every operand
\* builds; (b) when it returns for a node with two or more operands, the
\* operator of each rhs entry is the text and location of the last infix
\* token before that entry's operand, not the empty-string sentinel
OperatorsAlternate ==
    /\ (eres # <<>> /\ AdjacentOperands) =>
          /\ eres[1].st # "ok"
          /\ OperandsBuild => eres[1].st = "panic"
    /\ (EReturned /\ Len(OperandPositions) >= 2) =>
          \A k \in 1..Len(eres[1].v.rhs) :
              /\ eres[1].v.rhs[k].op =
                    [text |-> EChildren[InfixBefore(k + 1)].text,
                     loc  |-> <<InfixBefore(k + 1)>>]
              /\ eres[1].v.rhs[k].op.text # ""

\* the parse has halted at the second of two operands that build and have
\* no infix token between them, after an operator and its operand
OperatorsAlternateWitness ==
    /\ eres # <<>> /\ eres[1].st = "panic"
    /\ OperandsBuild
    /\ Len(EChildren) = 4
    /\ ~IsInfix(EChildren[1]) /\ IsInfix(EChildren[2])
    /\ ~IsInfix(EChildren[3]) /\ ~IsInfix(EChildren[4])

----------------------------------------------------------------------------
(* Properties of parse *)

Running == status \in {"start", "running"}

Aborted == status \in {"exit9", "panic"}

\* positions of the delivered nodes whose rule is in rules, in order
PositionsOf(rules) ==
    SelectSeq([i \in 1..Len(Decls) |-> i], LAMBDA i : Decls[i].rule \in rules)

\* the delivered node a Local or Import was built from
SourceOf(entry) == entry.loc[1]

SourcesOf(entries) == [i \in 1..Len(entries) |-> SourceOf(entries[i])]

DefKindOf(rule) ==
    CASE rule = "function" -> "Function"
      [] rule = "imacro" -> "Macro"
      [] rule = "struct_d" -> "Struct"
      [] rule = "istatic" -> "Static"
      [] rule = "constant" -> "Const"

\* C1 as stated: after a successful parse Module.locals holds one Local per
\* delivered declaration of any kind (function, macro, struct, static,
\* constant, import), in delivery order.
LocalsAreAllDeclarations ==
    status = "ok" =>
        SourcesOf(locals) =
            PositionsOf({"function", "imacro", "struct_d", "istatic", "constant",
                         "import"})

\* C1 amended: after a successful parse Module.locals holds exactly one
\* Local per delivered function, macro, struct, static and constant, in
\* delivery order and of the declaration's kind, and Module.imports holds
\* exactly one Import per delivered import declaration, in delivery order.
DeclarationOrderPreserved ==
    status = "ok" =>
        /\ SourcesOf(locals) =
              PositionsOf({"function", "imacro", "struct_d", "istatic", "constant"})
        /\ \A i \in 1..Len(locals) :
              locals[i].def.kind = DefKindOf(Decls[SourceOf(locals[i])].rule)
        /\ SourcesOf(imports) = PositionsOf({"import"})

\* C1 witness: a file of an import followed by a function was parsed into
\* one Import and one Local.
DeclarationOrderWitness ==
    /\ status = "ok"
    /\ Len(Decls) = 2
    /\ Len(imports) = 1 /\ SourceOf(imports[1]) = 1
    /\ Len(locals) = 1 /\ SourceOf(locals[1]) = 2
    /\ locals[1].def.kind = "Function"

HasPart(d, rules) == \E k \in 1..Len(d.inner) : d.inner[k].rule \in rules

\* a static declaration with a shared or export keyword among its children
StaticWithVisibility(d) ==
    d.rule = "istatic" /\ HasPart(d, {"key_shared", "exported"})

\* position of the first shared or export keyword of d
FirstVisibility(d) ==
    CHOOSE k \in 1..Len(d.inner) :
        /\ d.inner[k].rule \in {"key_shared", "exported"}
        /\ \A j \in 1..(k - 1) : d.inner[j].rule \notin {"key_shared", "exported"}

\* the part loop of d gets as far as its first visibility keyword
ReachesVisibility(d) ==
    StaticScan(StaticScanInit, SubSeq(d.inner, 1, FirstVisibility(d) - 1), 1,
               <<>>, d.rule).st = "ok"

NoLocalFrom(i) == \A k \in 1..Len(locals) : SourceOf(locals[k]) # i

\* C4: a static declaration with a shared or export keyword never yields a
\* Local and the loop never gets past it, so no Module is returned; once the
\* loop has met the keyword the process has exited with status 9.
StaticVisibilityRejected ==
    \A i \in 1..Len(Decls) :
        StaticWithVisibility(Decls[i]) =>
            /\ NoLocalFrom(i)
            /\ idx <= i
            /\ status # "ok"
            /\ (idx = i /\ ~Running /\ ReachesVisibility(Decls[i])) => status = "exit9"

\* C4 witness: the second declaration is a static with a visibility
\* keyword; the first one was pushed, then the process exited with 9.
StaticVisibilityWitness ==
    /\ status = "exit9"
    /\ idx = 2
    /\ Len(Decls) = 2
    /\ StaticWithVisibility(Decls[2])
    /\ Len(locals) = 1

\* a constant whose export keyword carries a rename identifier
ConstantWithRename(d) ==
    /\ d.rule = "constant"
    /\ \E k \in 1..Len(d.inner) :
          d.inner[k].rule = "exported" /\ HasPart(d.inner[k], {"ident"})

\* C5: a constant whose export keyword carries a rename never yields a Local
\* and stops the parse; a constant with a plain shared or export keyword
\* yields a Local with that visibility.
ConstantRenameRejected ==
    /\ \A i \in 1..Len(Decls) :
          ConstantWithRename(Decls[i]) =>
              NoLocalFrom(i) /\ idx <= i /\ status # "ok"
    /\ \A k \in 1..Len(locals) :
          LET d == Decls[SourceOf(locals[k])]
          IN  (d.rule = "constant" /\ ~ConstantWithRename(d)) =>
                  locals[k].vis =
                      IF HasPart(d, {"exported"}) THEN "Export"
                      ELSE IF HasPart(d, {"key_shared"}) THEN "Shared"
                      ELSE "Object"

\* C7 as stated: a call to parse ends in one of two ways, a returned Module
\* or an exit with status 9 after one diagnostic.
ParseHasTwoOutcomes ==
    /\ ~Running => status \in {"ok", "exit9"}
    /\ status = "exit9" => logged = 1

\* C7 amended: a call to parse ends in one of three ways: a returned
\* Module, an exit with status 9 after exactly one logged diagnostic, or an
\* internal halt (panic) with no diagnostic logged.  The step that aborts
\* adds nothing to the Module, and after an abort or a return nothing
\* changes: no later node is processed, no further diagnostic is logged and
\* no Module is returned after an abort.
ParseOutcomes ==
    /\ [](status \in {"start", "running", "ok", "exit9", "panic"})
    /\ [](logged = IF status = "exit9" THEN 1 ELSE 0)
    /\ [][ /\ ~Running => UNCHANGED <<status, idx, locals, imports, logged>>
           /\ Aborted' => UNCHANGED <<idx, locals, imports>> ]_vars

\* C7 witness: the parse stopped with status 9 at the first of two
\* declarations, with one diagnostic and nothing in the Module.
ParseOutcomesWitness ==
    /\ status = "exit9"
    /\ logged = 1
    /\ idx = 1
    /\ Len(Decls) = 2
    /\ locals = <<>> /\ imports = <<>>

\* the named type child of a static or constant declaration
NamedTypeOf(d) ==
    d.inner[CHOOSE k \in 1..Len(d.inner) : d.inner[k].rule = "named_type"]

\* a static written with mut: its named type ends with the name and has the
\* mut keyword after the last pointer indicator; it has an initializer
MutStatic(d) ==
    /\ d.rule = "istatic"
    /\ HasPart(d, {"named_type"}) /\ HasPart(d, {"expr"})
    /\ LET ps == Tail(NamedTypeOf(d).inner)
       IN  /\ Len(ps) >= 2
           /\ Last(ps).rule = "ident"
           /\ \E j \in 1..(Len(ps) - 1) :
                 /\ ps[j].rule = "key_mut"
                 /\ \A q \in (j + 1)..(Len(ps) - 1) : ps[q].rule # "ptr"

\* C8: a static written with mut and without visibility keyword is accepted:
\* the loop does not abort at it, and once past it the Module has exactly
\* one Local for it, a Def::Static whose storage is Static when no storage
\* keyword is written and whose tags record "mutable".
MutStaticAccepted ==
    \A i \in 1..Len(Decls) :
        (MutStatic(Decls[i]) /\ ~StaticWithVisibility(Decls[i])) =>
            /\ ~(idx = i /\ Aborted)
            /\ idx > i =>
                  /\ Cardinality({k \in 1..Len(locals) : SourceOf(locals[k]) = i}) = 1
                  /\ \A k \in 1..Len(locals) :
                        SourceOf(locals[k]) = i =>
                            /\ locals[k].def.kind = "Static"
                            /\ locals[k].vis = "Object"
                            /\ ~HasPart(Decls[i], {"key_thread_local", "key_static",
                                                   "key_atomic"})
                                  => locals[k].def.storage = "Static"
                            /\ \E t \in 1..Len(locals[k].def.tags) :
                                  locals[k].def.tags[t].key = "mutable"

\* C8 witness: a static with mut and without storage or visibility keyword
\* has been pushed and the Module returned.
MutStaticWitness ==
    /\ status = "ok"
    /\ Len(locals) = 1
    /\ MutStatic(Decls[SourceOf(locals[1])])
    /\ ~HasPart(Decls[SourceOf(locals[1])], {"key_atomic"})
    /\ locals[1].def.storage = "Static"

\* position of the named type child of a static or constant declaration
NamedTypeAt(d) == CHOOSE k \in 1..Len(d.inner) : d.inner[k].rule = "named_type"

\* a static or constant declaration with one named type that builds and an
\* initializer that builds; a static has no visibility keyword
ValueDeclBuilds(d) ==
    /\ d.rule \in {"istatic", "constant"}
    /\ ~StaticWithVisibility(d)
    /\ \A k \in 1..Len(d.inner) :
          d.inner[k].rule \in {"key_thread_local", "key_static", "key_atomic",
                               "key_shared", "exported", "named_type", "expr"}
    /\ Cardinality({k \in 1..Len(d.inner) : d.inner[k].rule = "named_type"}) = 1
    /\ Cardinality({k \in 1..Len(d.inner) : d.inner[k].rule = "expr"}) = 1
    /\ parse_named_type(NamedTypeOf(d), <<>>).st = "ok"
    /\ \A k \in 1..Len(d.inner) :
          d.inner[k].rule = "expr" => parse_expr(d.inner[k], <<>>).st = "ok"

\* the positions, among the children of the named type of d, of the tags
\* written after the last pointer indicator
TrailingTagsAt(d) ==
    SelectSeq([j \in 1..Len(NamedTypeOf(d).inner) |-> j],
              LAMBDA j :
                /\ NamedTypeOf(d).inner[j].rule \in {"key_mut", "tag_name"}
                /\ \A q \in (j + 1)..Len(NamedTypeOf(d).inner) :
                      NamedTypeOf(d).inner[q].rule # "ptr")

\* the key of the tag a tag child writes
TagKeyOf(part) == IF part.rule = "key_mut" THEN "mutable" ELSE part.inner[1].text

LocalsFrom(i) == {k \in 1..Len(locals) : SourceOf(locals[k]) = i}

\* C17: a constant whose named type has a tag after the last pointer
\* indicator exits with status 9 and yields no Local; a constant without
\* one yields one Def::Const Local; a static with such tags is accepted and
\* its Def::Static holds them, in written order, as its tags
ConstantTagsRejected ==
    \A i \in 1..Len(Decls) :
        ValueDeclBuilds(Decls[i]) =>
            /\ (Decls[i].rule = "constant" /\ Len(TrailingTagsAt(Decls[i])) > 0) =>
                  /\ NoLocalFrom(i)
                  /\ idx <= i
                  /\ status # "ok"
                  /\ (idx = i /\ ~Running) => (status = "exit9" /\ logged = 1)
            /\ (Decls[i].rule = "constant" /\ Len(TrailingTagsAt(Decls[i])) = 0) =>
                  /\ ~(idx = i /\ Aborted)
                  /\ idx > i =>
                        /\ Cardinality(LocalsFrom(i)) = 1
                        /\ \A k \in LocalsFrom(i) : locals[k].def.kind = "Const"
            /\ Decls[i].rule = "istatic" =>
                  /\ ~(idx = i /\ Aborted)
                  /\ idx > i =>
                        /\ Cardinality(LocalsFrom(i)) = 1
                        /\ \A k \in LocalsFrom(i) :
                              /\ locals[k].def.kind = "Static"
                              /\ Len(locals[k].def.tags) = Len(TrailingTagsAt(Decls[i]))
                              /\ \A t \in 1..Len(locals[k].def.tags) :
                                    /\ locals[k].def.tags[t].key =
                                          TagKeyOf(NamedTypeOf(Decls[i]).inner[
                                                       TrailingTagsAt(Decls[i])[t]])
                                    /\ locals[k].def.tags[t].loc =
                                          <<i, NamedTypeAt(Decls[i]),
                                            TrailingTagsAt(Decls[i])[t]>>

\* a static with a trailing mut was pushed with its tag, then a constant
\* with a trailing mut ended the parse with status 9
ConstantTagsWitness ==
    /\ status = "exit9"
    /\ idx = 2
    /\ Len(Decls) = 2
    /\ ValueDeclBuilds(Decls[1]) /\ Decls[1].rule = "istatic"
    /\ ValueDeclBuilds(Decls[2]) /\ Decls[2].rule = "constant"
    /\ Len(TrailingTagsAt(Decls[2])) > 0
    /\ Len(locals) = 1
    /\ Len(locals[1].def.tags) = 1

\* the texts of the name identifier children of a declaration
NameIdents(d) ==
    LET ids == SelectSeq(d.inner, LAMBDA part : part.rule = "ident")
    IN  [k \in 1..Len(ids) |-> ids[k].text]

\* C9: every function, macro and struct Local comes from a declaration with
\* exactly one name identifier and carries that identifier as its name.
ExactlyOneName ==
    \A k \in 1..Len(locals) :
        locals[k].def.kind \in {"Function", "Macro", "Struct"} =>
            NameIdents(Decls[SourceOf(locals[k])]) = <<locals[k].name>>

\* C20 as stated: a Local of Module.locals carries an export rename only
\* if its visibility is Export, whatever visibility keywords its
\* declaration has and in whatever order
RenameOnlyWhenExport ==
    \A k \in 1..Len(locals) :
        locals[k].export_as # <<>> => locals[k].vis = "Export"

----------------------------------------------------------------------------
(* Properties of the call structure *)

\* C10: the parse of one file eventually completes or aborts.
ParseTerminates == <>(wstatus \in {"done", "aborted"})

\* C10 witness: a parse has completed after loops nested ten deep
\* (module, function, blocks, statements and expressions within them).
ParseTerminatesWitness ==
    /\ wstatus = "done"
    /\ wstack = <<>>
    /\ wmax >= 10

----------------------------------------------------------------------------
(* Properties of the preprocessor integration *)

\* the loops over a module body, a struct body and a block body
PPLoops == {"p", "struct_d", "parse_block"}

\* C11: every loop over a module body, a struct body or a block body runs
\* over the preprocessor's output for that body: its position never leaves
\* that output, and the node it has handed to a builder function is the
\* node the preprocessor yielded at that position
LoopsConsumePreprocessed ==
    \A k \in 1..Len(wstack) :
        wstack[k].fn \in PPLoops =>
            /\ wstack[k].i <= Len(PP(wstack[k].node.inner)) + 1
            /\ k < Len(wstack) =>
                  wstack[k + 1].node = PP(wstack[k].node.inner)[wstack[k].i - 1]

\* a body loop has handed on a node that follows a node the preprocessor
\* filtered out
PreprocessedWitness ==
    \E k \in 1..(Len(wstack) - 1) :
        /\ wstack[k].fn \in PPLoops
        /\ wstack[k].i - 1 <= Len(PP(wstack[k].node.inner))
        /\ wstack[k + 1].node = PP(wstack[k].node.inner)[wstack[k].i - 1]
        /\ wstack[k + 1].node # wstack[k].node.inner[wstack[k].i - 1]

----------------------------------------------------------------------------
(* Properties of the statement builder *)

\* parse_block has returned a Block for the block node handed to it
BlockReturned == sres # <<>> /\ snode.rule = "block" /\ sres[1].st = "ok"

\* the nodes the statement loop of the block has consumed
BlockOut == PP(snode.inner)

CondRules == {"if_stm", "elseif_stm", "else_stm"}

CondOp(rule) ==
    CASE rule = "if_stm" -> "if"
      [] rule = "elseif_stm" -> "else if"
      [] rule = "else_stm" -> "else"

\* the condition a conditional node at position j carries: none for else
CondExprOf(stm, j) ==
    IF stm.rule = "else_stm" THEN <<>>
    ELSE <<parse_expr(stm.inner[1], <<j, 1>>).v>>

\* the body of a conditional node at position j: the node's own block
CondBodyOf(stm, j) ==
    IF stm.rule = "else_stm" THEN parse_block(stm.inner[1], <<j, 1>>).v
    ELSE parse_block(stm.inner[2], <<j, 2>>).v

\* C12: every if, else-if and else node of a block is one Cond statement
\* of the block's list, at the node's own position, with the discriminant
\* of its rule, a condition for if and else-if and none for else, and its
\* own block as body: the entry of one node holds nothing of its neighbours
CondsStaySeparate ==
    BlockReturned =>
        /\ Len(sres[1].v.statements) = Len(BlockOut)
        /\ \A j \in 1..Len(BlockOut) :
              BlockOut[j].rule \in CondRules =>
                  sres[1].v.statements[j] =
                      [kind |-> "Cond", op |-> CondOp(BlockOut[j].rule),
                       expr |-> CondExprOf(BlockOut[j], j),
                       body |-> CondBodyOf(BlockOut[j], j)]

\* a block with an if, an else-if and an else in a row has been built
CondsWitness ==
    /\ BlockReturned
    /\ Len(BlockOut) = 3
    /\ BlockOut[1].rule = "if_stm"
    /\ BlockOut[2].rule = "elseif_stm"
    /\ BlockOut[3].rule = "else_stm"
    /\ \A j \in 1..3 : sres[1].v.statements[j].kind = "Cond"

\* C18: a Block returned by parse_block has one Statement per node the
\* preprocessor yields over the block's children, each built from the node
\* at the same position, and an end location whose start and end both are
\* the end offset of the block node's span, whatever the children are
BlockShape ==
    BlockReturned =>
        /\ Len(sres[1].v.statements) = Len(BlockOut)
        /\ \A j \in 1..Len(BlockOut) :
              sres[1].v.statements[j] = parse_statement(BlockOut[j], <<j>>).v
        /\ sres[1].v.end.start = sres[1].v.end.end
        /\ sres[1].v.end.end = <<"end", <<>>>>

\* a block of three children, one of them filtered out by the
\* preprocessor, has been built into a Block of two statements
BlockShapeWitness ==
    /\ BlockReturned
    /\ Len(snode.inner) = 3
    /\ Len(BlockOut) = 2
    /\ Len(sres[1].v.statements) = 2
    /\ sres[1].v.statements[1] # sres[1].v.statements[2]

\* parse_statement has returned a For for the for node handed to it
ForReturned == sres # <<>> /\ snode.rule = "for_stm" /\ sres[1].st = "ok"

\* the number of semicolon children before child j of the for node
SemisBefore(j) ==
    Cardinality({k \in 1..(j - 1) : snode.inner[k].rule = "semicolon"})

\* the block children that follow exactly two semicolons
BodyCandidates ==
    {j \in 1..Len(snode.inner) :
        snode.inner[j].rule = "block" /\ SemisBefore(j) = 2}

\* the children that are neither a semicolon nor the loop body (the first
\* block child after exactly two semicolons) and follow n semicolons
SegmentChildren(n) ==
    {j \in 1..Len(snode.inner) :
        /\ snode.inner[j].rule # "semicolon"
        /\ SemisBefore(j) = n
        /\ ~(j \in BodyCandidates /\ \A b \in BodyCandidates : j <= b)}

\* init, condition and step slot of the returned For
ForSlot(k) ==
    CASE k = 1 -> sres[1].v.e1
      [] k = 2 -> sres[1].v.e2
      [] k = 3 -> sres[1].v.e3

\* the Statement built from child j of the for node
ForChildStatement(j) == parse_statement(snode.inner[j], <<j>>).v

\* C13 as stated: every child that is neither a semicolon nor the body is
\* held by the slot that matches the number of semicolons before it
ForSlotsHoldEveryChild ==
    ForReturned =>
        \A j \in 1..Len(snode.inner) :
            \A n \in 0..2 :
                j \in SegmentChildren(n) => ForSlot(n + 1) = <<ForChildStatement(j)>>

\* C13: the segment counter starts at the init segment and goes up by one
\* per semicolon; a child that is neither a semicolon nor the body is built
\* as a Statement and written to the slot of the number of semicolons
\* before it, so a slot is empty when its segment has no such child and
\* holds the last one when it has several
ForSlotsBySegment ==
    ForReturned =>
        \A n \in 0..2 :
            ForSlot(n + 1) =
                IF SegmentChildren(n) = {} THEN <<>>
                ELSE <<ForChildStatement(LastOf(SegmentChildren(n)))>>

\* a For with one child in each of its three segments has been built
ForSlotsWitness ==
    /\ ForReturned
    /\ \A n \in 0..2 : Cardinality(SegmentChildren(n)) = 1
    /\ \A k \in 1..3 : ForSlot(k) # <<>>

\* parse_statement has finished, with a For or by halting, on a for node
ForDone == sres # <<>> /\ snode.rule = "for_stm"

\* the block children seen before the second semicolon
EarlyBlocks ==
    {j \in 1..Len(snode.inner) :
        snode.inner[j].rule = "block" /\ SemisBefore(j) < 2}

\* the children that are not a semicolon and follow a third semicolon
LateChildren ==
    {j \in 1..Len(snode.inner) :
        snode.inner[j].rule # "semicolon" /\ SemisBefore(j) >= 3}

\* the first block child that follows exactly two semicolons
FirstBody == CHOOSE b \in BodyCandidates : \A c \in BodyCandidates : b <= c

\* the Block built from child j of the for node
ForChildBlock(j) == parse_block(snode.inner[j], <<j>>).v

\* a returned For has the first block child after exactly two semicolons
\* as its body
ForBodyIsFirstLateBlock ==
    ForReturned =>
        /\ BodyCandidates # {}
        /\ sres[1].v.body = ForChildBlock(FirstBody)

\* a for node without a block child after exactly two semicolons, or with
\* a child other than a semicolon after a third semicolon, halts the parse
ForHaltsWithoutBody ==
    (ForDone /\ (BodyCandidates = {} \/ LateChildren # {})) => sres[1].st = "panic"

\* C21 as stated: the body is the first block child after exactly two
\* semicolons, every block child before the second semicolon is held as a
\* Block statement by the init or condition slot of the returned For, and
\* a for node without such a body or with a child after a third semicolon
\* halts the parse
ForEarlyBlocksAllStored ==
    /\ ForBodyIsFirstLateBlock
    /\ ForHaltsWithoutBody
    /\ ForReturned =>
          \A j \in EarlyBlocks :
              /\ ForSlot(SemisBefore(j) + 1) =
                    <<[kind |-> "Block", block |-> ForChildBlock(j)]>>
              /\ sres[1].v.body # ForChildBlock(j)

\* C21: every returned For has a body, the first block child after exactly
\* two semicolons; a block child before the second semicolon never becomes
\* the body, it is built as a Block statement and written to the init or
\* condition slot, which holds it unless a later child of the same segment
\* replaces it; a for node without a block child after exactly two
\* semicolons halts the parse, and so does one with a child other than a
\* semicolon after a third semicolon
ForBodyAfterTwoSemicolons ==
    /\ ForBodyIsFirstLateBlock
    /\ ForHaltsWithoutBody
    /\ ForReturned =>
          \A j \in EarlyBlocks :
              /\ ForChildStatement(j) = [kind |-> "Block", block |-> ForChildBlock(j)]
              /\ j = LastOf(SegmentChildren(SemisBefore(j)))
                    => ForSlot(SemisBefore(j) + 1) = <<ForChildStatement(j)>>
              /\ sres[1].v.body # ForChildBlock(j)

\* a For has been built from a node with a block in its init segment, a
\* block in its condition segment and two blocks after the second
\* semicolon: the early blocks sit in their slots and the first late one
\* is the body
ForBodyWitness ==
    /\ ForReturned
    /\ \E i, j \in EarlyBlocks : SemisBefore(i) = 0 /\ SemisBefore(j) = 1
    /\ Cardinality(BodyCandidates) = 2
    /\ sres[1].v.e1 # <<>> /\ sres[1].v.e1[1].kind = "Block"
    /\ sres[1].v.e2 # <<>> /\ sres[1].v.e2[1].kind = "Block"
    /\ sres[1].v.body = ForChildBlock(FirstBody)

====
